---------------------------- MODULE Spec2Model ----------------------------
(***************************************************************************)
(* Orbital-mechanics core of SeanDohertyPhotos/orbital-mechanics:          *)
(* physics.js (force, orbital elements, Kepler propagation, collision),    *)
(* the first Spacecraft class of spacecraft.js and the frame loop of the   *)
(* first Scene class of scene.js.                                          *)
(*                                                                         *)
(* JavaScript numbers are carried as fixed-point integers:                 *)
(*   real-world lengths and speeds   in 1/RealUnit (tenths),               *)
(*   visualization lengths and speeds in 1/VisUnit,                        *)
(*   angles                          in 1/AngleUnit radian (milliradian),  *)
(*   sines, cosines, unit vectors    in 1/TrigUnit,                        *)
(*   eccentricity                    in 1/EccUnit,                         *)
(*   time                            in seconds.                           *)
(* Every product is rescaled by a rounding division, as a float product is *)
(* rounded.  Non-finite floats (NaN, +Infinity, -Infinity) are sentinels.  *)
(***************************************************************************)
EXTENDS Integers, Sequences, FiniteSets, TLC

(***************************************************************************)
(* Units of the fixed-point representation.                                *)
(***************************************************************************)
\* One real-world unit of length.
RealUnit == 10

\* One radian.
AngleUnit == 1000

\* The number 1 of a sine, a cosine or a unit vector's length.
TrigUnit == 1000

\* Eccentricity 1.
EccUnit == 20000

\* One second: times (deltaTime) are carried in 1/TimeUnit s.
TimeUnit == 50

(***************************************************************************)
(* Non-finite numbers.                                                     *)
(***************************************************************************)
NaN == 2000000001

Infinity == 2000000002

NegInfinity == 0 - Infinity

IsNaN(x) == x = NaN

IsFinite(x) == x # NaN /\ x # Infinity /\ x # NegInfinity

\* x < y of JavaScript: false when either side is NaN.
Less(x, y) ==
    IF x = NaN \/ y = NaN THEN FALSE
    ELSE IF x = Infinity \/ y = NegInfinity THEN FALSE
    ELSE IF x = NegInfinity \/ y = Infinity THEN TRUE
    ELSE x < y

\* x >= y of JavaScript: false when either side is NaN.
GreaterEq(x, y) ==
    IF x = NaN \/ y = NaN THEN FALSE
    ELSE ~Less(x, y)

\* x <= y of JavaScript.
LessEq(x, y) == GreaterEq(y, x)

(***************************************************************************)
(* Integer helpers.                                                        *)
(***************************************************************************)
Abs(x) == IF x < 0 THEN 0 - x ELSE x

Min(a, b) == IF a <= b THEN a ELSE b

Max(a, b) == IF a >= b THEN a ELSE b

\* n / d rounded to the nearest integer, for n >= 0 and d > 0.
RDivPositive(n, d) == (n + d \div 2) \div d

\* a / b rounded to the nearest integer (b # 0).
RDiv(a, b) ==
    IF (a < 0) = (b < 0) THEN RDivPositive(Abs(a), Abs(b))
    ELSE 0 - RDivPositive(Abs(a), Abs(b))

\* x * num / den for num >= 0 and den > 0, without the product x * num.
MulDiv(x, num, den) ==
    IF x >= 0
    THEN (x \div den) * num + RDivPositive((x % den) * num, den)
    ELSE 0 - ((0 - x) \div den) * num - RDivPositive(((0 - x) % den) * num, den)

\* a % b of JavaScript for b > 0: the sign follows the dividend.
JsMod(a, b) == IF a >= 0 THEN a % b ELSE 0 - ((0 - a) % b)

RECURSIVE SqrtSearch(_, _, _)
SqrtSearch(n, lo, hi) ==
    IF lo >= hi THEN lo
    ELSE IF ((lo + hi + 1) \div 2) * ((lo + hi + 1) \div 2) <= n
    THEN SqrtSearch(n, (lo + hi + 1) \div 2, hi)
    ELSE SqrtSearch(n, lo, (lo + hi + 1) \div 2 - 1)

\* Math.sqrt, rounded down.
Sqrt(n) == SqrtSearch(n, 0, 46340)

(***************************************************************************)
(* THREE.Vector3.  A vector is a triple; NaNVector stands for one whose    *)
(* component is not finite.                                                *)
(***************************************************************************)
NaNVector == <<NaN, NaN, NaN>>

ZeroVector == <<0, 0, 0>>

IsNaNVector(v) == v[1] = NaN

Add(a, b) ==
    IF IsNaNVector(a) \/ IsNaNVector(b) THEN NaNVector
    ELSE <<a[1] + b[1], a[2] + b[2], a[3] + b[3]>>

Sub(a, b) ==
    IF IsNaNVector(a) \/ IsNaNVector(b) THEN NaNVector
    ELSE <<a[1] - b[1], a[2] - b[2], a[3] - b[3]>>

Negate(a) ==
    IF IsNaNVector(a) THEN NaNVector
    ELSE <<0 - a[1], 0 - a[2], 0 - a[3]>>

\* v * (num / den)
MultiplyScalar(v, num, den) ==
    IF IsNaNVector(v) \/ ~IsFinite(num) THEN NaNVector
    ELSE <<RDiv(v[1] * num, den), RDiv(v[2] * num, den), RDiv(v[3] * num, den)>>

DivideScalar(v, den) == MultiplyScalar(v, 1, den)

Dot(a, b) ==
    IF IsNaNVector(a) \/ IsNaNVector(b) THEN NaN
    ELSE a[1] * b[1] + a[2] * b[2] + a[3] * b[3]

Cross(a, b) ==
    IF IsNaNVector(a) \/ IsNaNVector(b) THEN NaNVector
    ELSE <<a[2] * b[3] - a[3] * b[2],
           a[3] * b[1] - a[1] * b[3],
           a[1] * b[2] - a[2] * b[1]>>

MaxAbs(v) == Max(Abs(v[1]), Max(Abs(v[2]), Abs(v[3])))

\* v / 64, used to keep the squares of large components in range.
Shrink(v) == <<RDiv(v[1], 64), RDiv(v[2], 64), RDiv(v[3], 64)>>

RECURSIVE FiniteLength(_)
FiniteLength(v) ==
    IF MaxAbs(v) <= 26000 THEN Sqrt(v[1] * v[1] + v[2] * v[2] + v[3] * v[3])
    ELSE 64 * FiniteLength(Shrink(v))

Length(v) == IF IsNaNVector(v) THEN NaN ELSE FiniteLength(v)

\* v * (unit / len)
Scaled(v, unit, len) ==
    IF len = 0 THEN ZeroVector
    ELSE <<RDiv(v[1] * unit, len), RDiv(v[2] * unit, len),
           RDiv(v[3] * unit, len)>>

\* THREE.Vector3.normalize divides by (length || 1): the zero vector stays
\* the zero vector.  The result is a unit vector in 1/unit.
RECURSIVE Normalize(_, _)
Normalize(v, unit) ==
    IF IsNaNVector(v) THEN NaNVector
    ELSE IF MaxAbs(v) > 100000 THEN Normalize(Shrink(v), unit)
    ELSE Scaled(v, unit, FiniteLength(v))

(***************************************************************************)
(* Math.PI, Math.sin, Math.cos, Math.acos, Math.atan2 on milliradians.     *)
(***************************************************************************)
Pi == 3142

TwoPi == 6283

HalfPi == 1571

\* x * (1 - x2 / 6 * (1 - x2 / 20 * (1 - x2 / 42))) with x2 = x * x:
\* x - x^3/3! + x^5/5! - x^7/7!
SinSeries(x, x2) ==
    RDiv(x * (AngleUnit
              - RDiv(x2 * (AngleUnit
                           - RDiv(x2 * (AngleUnit - RDiv(x2, 42)),
                                  20 * AngleUnit)),
                     6 * AngleUnit)),
         AngleUnit)

\* sin on [0, pi/2]
SinQuarter(x) ==
    Min(TrigUnit, RDiv(SinSeries(x, RDiv(x * x, AngleUnit)) * TrigUnit, AngleUnit))

\* sin on [0, 2 pi): the sign, and the angle of the first quarter.
SinReduced(x) ==
    IF x <= HalfPi THEN SinQuarter(x)
    ELSE IF x <= Pi + HalfPi THEN SinQuarter(Abs(Pi - x)) * (IF x <= Pi THEN 1 ELSE -1)
    ELSE 0 - SinQuarter(Max(0, TwoPi - x))

Sin(a) == SinReduced(a % TwoPi)

Cos(a) == Sin(a + HalfPi)

RECURSIVE AcosSearch(_, _, _)
AcosSearch(c, lo, hi) ==
    IF lo >= hi THEN lo
    ELSE IF Cos((lo + hi) \div 2) <= c THEN AcosSearch(c, lo, (lo + hi) \div 2)
    ELSE AcosSearch(c, (lo + hi) \div 2 + 1, hi)

\* Math.acos: an angle in [0, pi].
Acos(c) ==
    IF c = NaN THEN NaN
    ELSE IF c >= TrigUnit THEN 0
    ELSE IF c <= 0 - TrigUnit THEN Pi
    ELSE AcosSearch(c, 0, Pi)

RECURSIVE AsinSearch(_, _, _)
AsinSearch(s, lo, hi) ==
    IF lo >= hi THEN lo
    ELSE IF SinQuarter((lo + hi) \div 2) >= s
    THEN AsinSearch(s, lo, (lo + hi) \div 2)
    ELSE AsinSearch(s, (lo + hi) \div 2 + 1, hi)

\* The angle of (ax, ay) in the first quadrant, len its length.
AtanQuadrant(ax, ay, len) ==
    IF ay <= ax THEN AsinSearch(RDiv(ay * TrigUnit, len), 0, HalfPi)
    ELSE HalfPi - AsinSearch(RDiv(ax * TrigUnit, len), 0, HalfPi)

\* The angle t of (|x|, |y|) carried to the quadrant of (x, y).
AtanSigned(y, x, t) ==
    IF x >= 0 /\ y >= 0 THEN t
    ELSE IF x < 0 /\ y >= 0 THEN Pi - t
    ELSE IF x < 0 /\ y < 0 THEN 0 - (Pi - t)
    ELSE 0 - t

\* Math.atan2(y, x): an angle in (-pi, pi].
RECURSIVE Atan2(_, _)
Atan2(y, x) ==
    IF y = NaN \/ x = NaN THEN NaN
    ELSE IF x = 0 /\ y = 0 THEN 0
    ELSE IF Max(Abs(x), Abs(y)) > 100000 THEN Atan2(RDiv(y, 64), RDiv(x, 64))
    ELSE AtanSigned(y, x,
                    AtanQuadrant(Abs(x), Abs(y), FiniteLength(<<x, y, 0>>)))

\* An angle of (-pi, pi] brought to [0, 2 pi): if (a < 0) a += 2 * Math.PI
Wrap(a) == IF a < 0 THEN a + TwoPi ELSE a

(***************************************************************************)
(* Program constants, in the units of the representation.                  *)
(***************************************************************************)
\* main.js SCALE_FACTOR = 0.001; ScaleManager.invScaleFactor = 1 / 0.001.
InvScaleFactor == 1000

\* Visualization numbers are carried in 1/VisUnit, so that a visualization
\* vector and its real-world image have the same resolution.
VisUnit == RealUnit * InvScaleFactor

\* physics.G, in the mass unit that makes G * PlanetMass an integer.
G == 1

\* Planet mass and radius (constructor parameters of Planet): a small body,
\* G * mass = 100000 real units^3 / s^2, radius 50 real units.
PlanetMass == 100000

PlanetRadius == 500

\* Planet.mesh.position: a THREE.Group is created at the origin.
PlanetPosition == ZeroVector

\* Spacecraft.mass (20000 kg) and Spacecraft.thrust (500 N), in units of 500.
SpacecraftMass == 40

SpacecraftThrust == 1

(***************************************************************************)
(* ScaleManager (planet.js).                                               *)
(***************************************************************************)
\* visualVector.clone().multiplyScalar(invScaleFactor)
vectorToRealWorld(visualVector) ==
    MultiplyScalar(visualVector, InvScaleFactor, VisUnit \div RealUnit)

\* realVector.clone().multiplyScalar(scaleFactor)
vectorToVisualizationSpace(realVector) ==
    MultiplyScalar(realVector, VisUnit \div RealUnit, InvScaleFactor)

(***************************************************************************)
(* physics.js                                                              *)
(***************************************************************************)
\* G * centralMass, in (1/RealUnit)^3 / s^2.
Mu(centralMass) == G * centralMass * RealUnit * RealUnit * RealUnit

\* calculateGravitationalForce without the negate() of the direction.
physics_calculateGravitationalForce_away(mass1, mass2, position1, position2) ==
    LET distanceVector == Sub(position1, position2)
        distance       == Length(distanceVector)
    IN  IF distance = NaN \/ distance = 0 THEN NaNVector
        ELSE LET forceMagnitude ==
                     RDiv(RDiv(Mu(mass2), distance) * mass1, distance)
                 forceDirection == Normalize(distanceVector, TrigUnit)
             IN  MultiplyScalar(forceDirection, forceMagnitude, TrigUnit)

\* physics.calculateGravitationalForce: the force on object 1, in
\* 1/RealUnit.  Coincident positions give 0 * Infinity = NaN.
physics_calculateGravitationalForce(mass1, mass2, position1, position2) ==
    LET distanceVector == Sub(position1, position2)
        distance       == Length(distanceVector)
    IN  IF distance = NaN \/ distance = 0 THEN NaNVector
        ELSE LET forceMagnitude ==
                     RDiv(RDiv(Mu(mass2), distance) * mass1, distance)
                 forceDirection == Negate(Normalize(distanceVector, TrigUnit))
             IN  MultiplyScalar(forceDirection, forceMagnitude, TrigUnit)

\* The value of a missing property, and of null.
Undefined == 2000000003

Null == [null |-> TRUE]

IsNull(x) == "null" \in DOMAIN x

\* obj.name of JavaScript: undefined when the object has no such property.
Property(obj, name) == IF name \in DOMAIN obj THEN obj[name] ELSE Undefined

\* 1e-6, the degenerate-geometry threshold, in 1/unit.
Epsilon6(unit) == unit \div 1000000

\* The elements of a state that is not a number.
NaNElements ==
    [eccentricity |-> NaN, semiMajorAxis |-> NaN, specificEnergy |-> NaN,
     inclination |-> NaN, longitudeOfAscendingNode |-> NaN,
     argumentOfPeriapsis |-> NaN, trueAnomaly |-> NaN,
     h |-> NaNVector, eVector |-> NaNVector]

\* (v * v / 2) - (mu / r), in 1/RealUnit^2
SpecificEnergy(mu, r, v) ==
    IF r = 0 THEN NegInfinity ELSE RDiv(v * v, 2) - RDiv(mu, r)

\* vCrossH / mu - position / |position|, in 1/EccUnit
EccentricityVector(position, velocity, mu, h) ==
    Sub(DivideScalar(Cross(velocity, DivideScalar(h, RealUnit)),
                     (mu \div RealUnit) \div EccUnit),
        Normalize(position, EccUnit))

\* Parabolic when |e - 1| < 1e-4, else -mu / (2 * specificEnergy).
SemiMajorAxis(mu, specificEnergy, eccentricity) ==
    IF Abs(eccentricity - EccUnit) < EccUnit \div 10000 THEN Infinity
    ELSE IF specificEnergy = NegInfinity THEN 0
    ELSE IF specificEnergy = 0 THEN NegInfinity
    ELSE RDiv(0 - mu, 2 * specificEnergy)

\* Math.acos(a.normalize().dot(b.normalize()))
AngleBetween(a, b) ==
    Acos(RDiv(Dot(Normalize(a, TrigUnit), Normalize(b, TrigUnit)), TrigUnit))

\* if (below) angle = 2 * Math.PI - angle
Reflex(angle, below) == IF below THEN TwoPi - angle ELSE angle

LongitudeOfAscendingNode(nodeVector, nodeLength) ==
    IF nodeLength > Epsilon6(TrigUnit)
    THEN Wrap(Atan2(nodeVector[2], nodeVector[1]))
    ELSE 0

ArgumentOfPeriapsis(eVector, eccentricity, nodeVector, nodeLength) ==
    IF eccentricity > Epsilon6(EccUnit)
    THEN IF nodeLength > Epsilon6(TrigUnit)
         THEN Reflex(AngleBetween(nodeVector, eVector), eVector[3] < 0)
         ELSE Wrap(Atan2(eVector[2], eVector[1]))
    ELSE 0

TrueAnomaly(position, velocity, eVector, eccentricity, nodeVector, nodeLength) ==
    IF eccentricity > Epsilon6(EccUnit)
    THEN Reflex(AngleBetween(eVector, position), Dot(position, velocity) < 0)
    ELSE IF nodeLength > Epsilon6(TrigUnit)
    THEN Reflex(AngleBetween(nodeVector, position), position[3] < 0)
    ELSE Wrap(Atan2(position[2], position[1]))

\* The object physics.calculateOrbitalParameters returns.
Elements(position, velocity, mu, specificEnergy, h, eVector, eccentricity, orbitalPlaneNormal, nodeVector, nodeLength) ==
    [eccentricity |-> eccentricity,
     semiMajorAxis |-> SemiMajorAxis(mu, specificEnergy, eccentricity),
     specificEnergy |-> specificEnergy,
     inclination |-> Acos(orbitalPlaneNormal[3]),
     longitudeOfAscendingNode |->
         LongitudeOfAscendingNode(nodeVector, nodeLength),
     argumentOfPeriapsis |->
         ArgumentOfPeriapsis(eVector, eccentricity, nodeVector, nodeLength),
     trueAnomaly |->
         TrueAnomaly(position, velocity, eVector, eccentricity, nodeVector,
                     nodeLength),
     h |-> h, eVector |-> eVector]

\* physics.js 70-77, the apoapsis property of the returned object:
\* Infinity when eccentricity >= 1, else semiMajorAxis * (1 + eccentricity).
Apoapsis(semiMajorAxis, eccentricity) ==
    IF GreaterEq(eccentricity, EccUnit) THEN Infinity
    ELSE IF IsNaN(eccentricity) \/ IsNaN(semiMajorAxis) THEN NaN
    ELSE IF ~IsFinite(semiMajorAxis) THEN semiMajorAxis
    ELSE semiMajorAxis + MulDiv(semiMajorAxis, eccentricity, EccUnit)

\* physics.js 80-85, the orbitalPeriod property of the returned object, in
\* seconds: 2 pi sqrt(a^3 / mu) when eccentricity < 1, else Infinity.
OrbitalPeriod(mu, semiMajorAxis, eccentricity) ==
    IF ~Less(eccentricity, EccUnit) THEN Infinity
    ELSE IF semiMajorAxis = Infinity THEN Infinity
    ELSE IF ~IsFinite(semiMajorAxis) \/ semiMajorAxis < 0 THEN NaN
    ELSE MulDiv(IF semiMajorAxis <= 1000000
                THEN RDiv(semiMajorAxis * Sqrt(semiMajorAxis), Sqrt(mu))
                ELSE RDiv(semiMajorAxis, Sqrt(mu)) * Sqrt(semiMajorAxis),
                TwoPi, AngleUnit)

\* nodeVector = (0, 0, 1) x orbitalPlaneNormal
ElementsOfNode(position, velocity, mu, specificEnergy, h, eVector, orbitalPlaneNormal, nodeVector) ==
    Elements(position, velocity, mu, specificEnergy, h, eVector,
             Length(eVector), orbitalPlaneNormal, nodeVector,
             Length(nodeVector))

\* orbitalPlaneNormal = h.clone().normalize()
ElementsOfPlane(position, velocity, mu, specificEnergy, h, eVector, orbitalPlaneNormal) ==
    ElementsOfNode(position, velocity, mu, specificEnergy, h, eVector,
                   orbitalPlaneNormal,
                   DivideScalar(Cross(<<0, 0, TrigUnit>>, orbitalPlaneNormal),
                                TrigUnit))

\* h = position x velocity, in 1/RealUnit^2
ElementsOfMomentum(position, velocity, mu, h) ==
    ElementsOfPlane(position, velocity, mu,
                    SpecificEnergy(mu, Length(position), Length(velocity)),
                    h, EccentricityVector(position, velocity, mu, h),
                    Normalize(h, TrigUnit))

\* physics.calculateOrbitalParameters: position and velocity relative to the
\* central body, in 1/RealUnit.
physics_calculateOrbitalParameters(position, velocity, centralMass) ==
    IF IsNaNVector(position) \/ IsNaNVector(velocity) THEN NaNElements
    ELSE ElementsOfMomentum(position, velocity, Mu(centralMass),
                            Cross(position, velocity))

\* sqrt(1 - e * e), in 1/EccUnit
Root(eccentricity) == Sqrt(EccUnit * EccUnit - eccentricity * eccentricity)

\* Math.atan2(sin / denom, cos / denom) brought to [0, 2 pi); denom is in
\* 1/TrigUnit, sin and cos come out in 1/TrigUnit.
AnomalyOf(sin, cos, denom) ==
    Wrap(Atan2(RDiv(sin, RDiv(denom * EccUnit, TrigUnit)),
               RDiv(cos, RDiv(denom * EccUnit, TrigUnit))))

\* E of physics.trueToMeanAnomaly: denom is 1 + e * cosTA
EccentricOfTrue(cosTA, sinTA, eccentricity) ==
    AnomalyOf(Root(eccentricity) * sinTA,
              eccentricity * TrigUnit + cosTA * EccUnit,
              RDiv(EccUnit * TrigUnit + eccentricity * cosTA, EccUnit))

\* M = E - e * sin(E), brought to [0, 2 pi)
MeanOfEccentric(E, eccentricity) ==
    Wrap(JsMod(E - RDiv(eccentricity * Sin(E), EccUnit), TwoPi))

\* physics.trueToMeanAnomaly
physics_trueToMeanAnomaly(trueAnomaly, eccentricity) ==
    MeanOfEccentric(EccentricOfTrue(Cos(trueAnomaly), Sin(trueAnomaly),
                                    eccentricity),
                    eccentricity)

\* physics.eccentricToTrueAnomaly on cosE and sinE: denom is 1 - e * cosE
TrueOfEccentric(cosE, sinE, eccentricity) ==
    AnomalyOf(Root(eccentricity) * sinE,
              cosE * EccUnit - eccentricity * TrigUnit,
              RDiv(EccUnit * TrigUnit - eccentricity * cosE, EccUnit))

\* physics.eccentricToTrueAnomaly
physics_eccentricToTrueAnomaly(eccentricAnomaly, eccentricity) ==
    TrueOfEccentric(Cos(eccentricAnomaly), Sin(eccentricAnomaly), eccentricity)

\* TOLERANCE = 1e-10 rad is below one unit of the angle representation.
TOLERANCE == 0

MAX_ITERATIONS == 30

\* delta = f / fPrime with f = E - e * sin(E) - M, fPrime = 1 - e * cos(E)
NewtonDelta(E, M, e) ==
    RDiv((E - RDiv(e * Sin(E), EccUnit) - M) * TrigUnit,
         TrigUnit - RDiv(e * Cos(E), EccUnit))

\* The Newton-Raphson loop of physics.solveKepler; KeplerStep is its body.
\* The result carries E and i at the exit of the loop; steps collects the
\* Newton steps taken, in order.
RECURSIVE KeplerIteration(_, _, _, _, _, _)
RECURSIVE KeplerStep(_, _, _, _, _, _)
\* The loop without "Math.abs(delta) > TOLERANCE" in its condition.
KeplerIteration_ignoringStep(E, M, e, i, delta, steps) ==
    IF i < MAX_ITERATIONS
    THEN KeplerStep(E, M, e, i, NewtonDelta(E, M, e), steps)
    ELSE [E |-> E, i |-> i, steps |-> steps]

KeplerIteration(E, M, e, i, delta, steps) ==
    IF Abs(delta) > TOLERANCE /\ i < MAX_ITERATIONS
    THEN KeplerStep(E, M, e, i, NewtonDelta(E, M, e), steps)
    ELSE [E |-> E, i |-> i, steps |-> steps]

\* delta = f / fPrime; E -= delta; i++
KeplerStep(E, M, e, i, delta, steps) ==
    KeplerIteration(E - delta, M, e, i + 1, delta, Append(steps, delta))

\* E = E % (2 * Math.PI); if (E < 0) E += 2 * Math.PI; return E
Normalized(loop) == [loop EXCEPT !.E = Wrap(JsMod(@, TwoPi))]

\* Initial guess: E = e > 0.8 ? Math.PI : M
InitialGuess(M, e) == IF e * 10 > 8 * EccUnit THEN Pi ELSE M

\* physics.solveKepler on a mean anomaly of [0, 2 pi)
SolveNormalized(M, e) ==
    Normalized(KeplerIteration(InitialGuess(M, e), M, e, 0, AngleUnit, <<>>))

\* physics.solveKepler with the course of its loop
SolveKepler(M, e) == SolveNormalized(Wrap(JsMod(M, TwoPi)), e)

\* physics.solveKepler
physics_solveKepler(M, e) == SolveKepler(M, e).E

(***************************************************************************)
(* Range of the fixed-point representation.  A step whose numbers leave    *)
(* this range is not explored.                                             *)
(***************************************************************************)
MaxCoordinate == 5000

MaxSpeed == 1000

MinDistance == 50

MaxSemiMajorAxis == 100000

MinSemiMajorAxis == 100

MaxEccentricity == 19800

Unmodelled == [unmodelled |-> TRUE]

IsUnmodelled(x) == "unmodelled" \in DOMAIN x

\* Elements the Kepler formulas can be evaluated on without leaving the range.
KeplerInRange(orbitalParameters) ==
    /\ orbitalParameters.semiMajorAxis >= MinSemiMajorAxis
    /\ orbitalParameters.semiMajorAxis <= MaxSemiMajorAxis
    /\ orbitalParameters.eccentricity >= 0
    /\ orbitalParameters.eccentricity <= MaxEccentricity
    /\ orbitalParameters.trueAnomaly \in 0 .. TwoPi
    /\ ~IsNaNVector(orbitalParameters.h)
    /\ MaxAbs(orbitalParameters.h) <= 20000000

\* The guard of physics.propagateKeplerian:
\* isNaN(semiMajorAxis) || semiMajorAxis <= 0 || eccentricity >= 1
NonElliptical(semiMajorAxis, eccentricity) ==
    \/ IsNaN(semiMajorAxis)
    \/ LessEq(semiMajorAxis, 0)
    \/ GreaterEq(eccentricity, EccUnit)

\* sqrt(mu / a^3), in milliradians per second
MeanMotion(mu, semiMajorAxis) ==
    RDiv(RDiv(Sqrt(mu) * 100 * AngleUnit, semiMajorAxis),
         Sqrt(10000 * semiMajorAxis))

\* p = a * (1 - e^2)
SemiLatusRectum(semiMajorAxis, eccentricity) ==
    RDiv(semiMajorAxis
         * RDiv(EccUnit * EccUnit - eccentricity * eccentricity, EccUnit),
         EccUnit)

\* The rotation of the perifocal vector (x, y, 0) to the reference frame.
RotateBy(cosLOAN, sinLOAN, cosAOP, sinAOP, cosI, sinI, x, y) ==
    <<RDiv((RDiv(cosLOAN * cosAOP, TrigUnit)
            - RDiv(RDiv(sinLOAN * sinAOP, TrigUnit) * cosI, TrigUnit)) * x
           + (0 - RDiv(cosLOAN * sinAOP, TrigUnit)
              - RDiv(RDiv(sinLOAN * cosAOP, TrigUnit) * cosI, TrigUnit)) * y,
           TrigUnit),
      RDiv((RDiv(sinLOAN * cosAOP, TrigUnit)
            + RDiv(RDiv(cosLOAN * sinAOP, TrigUnit) * cosI, TrigUnit)) * x
           + (0 - RDiv(sinLOAN * sinAOP, TrigUnit)
              + RDiv(RDiv(cosLOAN * cosAOP, TrigUnit) * cosI, TrigUnit)) * y,
           TrigUnit),
      RDiv(RDiv(sinAOP * sinI, TrigUnit) * x
           + RDiv(cosAOP * sinI, TrigUnit) * y,
           TrigUnit)>>

Rotate(orbitalParameters, x, y) ==
    RotateBy(Cos(orbitalParameters.longitudeOfAscendingNode),
             Sin(orbitalParameters.longitudeOfAscendingNode),
             Cos(orbitalParameters.argumentOfPeriapsis),
             Sin(orbitalParameters.argumentOfPeriapsis),
             Cos(orbitalParameters.inclination),
             Sin(orbitalParameters.inclination), x, y)

\* Position (radius cos, radius sin) and velocity
\* (-h/p sin, h/p (e + cos)) of the orbital plane, rotated.
PerifocalState(orbitalParameters, cosTA, sinTA, radius, hOverP) ==
    IF hOverP > 1000000 THEN Unmodelled
    ELSE [position |->
              Rotate(orbitalParameters, RDiv(radius * cosTA, TrigUnit),
                     RDiv(radius * sinTA, TrigUnit)),
          velocity |->
              Rotate(orbitalParameters, 0 - RDiv(hOverP * sinTA, TrigUnit),
                     RDiv(hOverP
                          * (RDiv(orbitalParameters.eccentricity * TrigUnit,
                                  EccUnit) + cosTA),
                          TrigUnit))]

\* radius = p / (1 + e * cos(newTrueAnomaly)); h / p in 1/RealUnit
StateOnOrbit(orbitalParameters, cosTA, sinTA, p) ==
    IF p < 1 THEN Unmodelled
    ELSE PerifocalState(orbitalParameters, cosTA, sinTA,
                        RDiv(p * TrigUnit,
                             TrigUnit
                             + RDiv(orbitalParameters.eccentricity * cosTA,
                                    EccUnit)),
                        RDiv(Length(orbitalParameters.h), p))

StateAtAnomaly(orbitalParameters, newTrueAnomaly) ==
    StateOnOrbit(orbitalParameters, Cos(newTrueAnomaly), Sin(newTrueAnomaly),
                 SemiLatusRectum(orbitalParameters.semiMajorAxis,
                                 orbitalParameters.eccentricity))

\* physics.propagateKeplerian on finite elements: the mean anomaly advanced
\* by meanMotion * deltaTime, Kepler's equation solved, the state rebuilt.
KeplerState(orbitalParameters, centralMass, deltaTime) ==
    StateAtAnomaly(
        orbitalParameters,
        physics_eccentricToTrueAnomaly(
            physics_solveKepler(
                physics_trueToMeanAnomaly(orbitalParameters.trueAnomaly,
                                          orbitalParameters.eccentricity)
                + RDiv(MeanMotion(Mu(centralMass),
                                  orbitalParameters.semiMajorAxis) * deltaTime,
                       TimeUnit),
                orbitalParameters.eccentricity),
            orbitalParameters.eccentricity))

\* physics.propagateKeplerian: null for the orbits its guard rejects,
\* otherwise { position, velocity }.  An infinite semi-major axis passes the
\* guard: the radius is then infinite and h / p is zero.
physics_propagateKeplerian(orbitalParameters, centralMass, deltaTime) ==
    IF NonElliptical(orbitalParameters.semiMajorAxis,
                     orbitalParameters.eccentricity)
    THEN Null
    ELSE IF IsNaN(orbitalParameters.eccentricity)
            \/ IsNaNVector(orbitalParameters.h)
            \/ orbitalParameters.trueAnomaly \in {NaN, Undefined}
    THEN [position |-> NaNVector, velocity |-> NaNVector]
    ELSE IF orbitalParameters.semiMajorAxis = Infinity
    THEN [position |-> NaNVector, velocity |-> ZeroVector]
    ELSE IF ~KeplerInRange(orbitalParameters) THEN Unmodelled
    ELSE KeplerState(orbitalParameters, centralMass, deltaTime)

\* A collision that reflects the velocity without damping it.
Rebound_undamped(planetPosition, planetRadius, velocity, normal) ==
    [position |->
         Add(planetPosition,
             MultiplyScalar(normal, RDiv(planetRadius * 101, 100), TrigUnit)),
     velocity |->
         Sub(velocity,
             MultiplyScalar(normal, 2 * RDiv(Dot(velocity, normal), TrigUnit),
                            TrigUnit))]

\* The result of a collision along the surface normal: the position at
\* planetRadius * 1.01 along the normal, the velocity reflected and halved.
Rebound(planetPosition, planetRadius, velocity, normal) ==
    [position |->
         Add(planetPosition,
             MultiplyScalar(normal, RDiv(planetRadius * 101, 100), TrigUnit)),
     velocity |->
         MultiplyScalar(
             Sub(velocity,
                 MultiplyScalar(normal, 2 * RDiv(Dot(velocity, normal), TrigUnit),
                                TrigUnit)),
             1, 2)]

\* A collision test that also fires on the surface: distance <= planetRadius.
physics_handlePlanetCollision_atSurface(position, planetPosition, planetRadius, velocity) ==
    IF LessEq(Length(Sub(position, planetPosition)), planetRadius)
    THEN Rebound(planetPosition, planetRadius, velocity,
                 Normalize(Sub(position, planetPosition), TrigUnit))
    ELSE Null

\* physics.handlePlanetCollision, in visualization units.
physics_handlePlanetCollision(position, planetPosition, planetRadius, velocity) ==
    IF Less(Length(Sub(position, planetPosition)), planetRadius)
    THEN Rebound(planetPosition, planetRadius, velocity,
                 Normalize(Sub(position, planetPosition), TrigUnit))
    ELSE Null

(***************************************************************************)
(* The vector objects a physics call works on.  ref gives the object each  *)
(* name of the code refers to, cells the value of each object.  A method   *)
(* of THREE.Vector3 such as sub, add, normalize, negate, multiplyScalar or *)
(* divideScalar changes its receiver and returns it; clone returns a new   *)
(* object.                                                                 *)
(***************************************************************************)
\* The objects passed to a call, under the names of its parameters.
Objects(names, values) ==
    [ref   |-> [n \in {names[i] : i \in 1 .. Len(names)} |->
                   CHOOSE i \in 1 .. Len(names) : names[i] = n],
     cells |-> values]

\* The value of the object name refers to.
Val(o, name) == o.cells[o.ref[name]]

\* const name = new THREE.Vector3(...)
New(o, name, value) ==
    [ref   |-> (name :> Len(o.cells) + 1) @@ o.ref,
     cells |-> Append(o.cells, value)]

\* A clone that returns its receiver instead of a copy.
Clone_sameObject(o, name, source) ==
    [o EXCEPT !.ref = (name :> o.ref[source]) @@ o.ref]

\* const name = source.clone()
Clone(o, name, source) == New(o, name, Val(o, source))

\* name.method(...): the receiver takes the value the method computes.
InPlace(o, name, value) == [o EXCEPT !.cells[o.ref[name]] = value]

\* The values of the objects named, in order.
Values(o, names) == [i \in 1 .. Len(names) |-> Val(o, names[i])]

\* physics.js 20-30: forceDirection and the vector returned are the object
\* distanceVector.
Objects_forceScaled(o, mass1, mass2) ==
    IF Length(Val(o, "distanceVector")) \in {NaN, 0}
    THEN InPlace(o, "distanceVector", NaNVector)
    ELSE InPlace(
             o, "distanceVector",
             MultiplyScalar(
                 Negate(Normalize(Val(o, "distanceVector"), TrigUnit)),
                 RDiv(RDiv(Mu(mass2), Length(Val(o, "distanceVector"))) * mass1,
                      Length(Val(o, "distanceVector"))),
                 TrigUnit))

\* The subtraction of physics.js 20 and 378: name.sub(other)
Objects_sub(o, name, other) ==
    InPlace(o, name, Sub(Val(o, name), Val(o, other)))

\* physics.calculateGravitationalForce: the objects after the call.
Objects_calculateGravitationalForce(mass1, mass2, position1, position2) ==
    Objects_forceScaled(
        Objects_sub(
            Clone(Objects(<<"position1", "position2">>,
                          <<position1, position2>>),
                  "distanceVector", "position1"),
            "distanceVector", "position2"),
        mass1, mass2)

\* name = source.clone().normalize()
Objects_unitOf(o, name, source, unit) ==
    InPlace(Clone(o, name, source), name, Normalize(Val(o, source), unit))

\* physics.js 56-58: vCrossH = velocity x h; eVector is the object vCrossH
\* after divideScalar(mu) and sub(position.clone().normalize()).
Objects_eVector(o, mu) ==
    Objects_sub(
        New(Objects_unitOf(o, "positionNorm", "position", EccUnit),
            "eVector",
            DivideScalar(Cross(Val(o, "velocity"),
                               DivideScalar(Val(o, "h"), RealUnit)),
                         (mu \div RealUnit) \div EccUnit)),
        "eVector", "positionNorm")

\* physics.js 118-147: the true anomaly normalizes a clone of the position
\* unless the orbit is circular and equatorial.
Objects_trueAnomaly(o) ==
    IF \/ Length(Val(o, "eVector")) > Epsilon6(EccUnit)
       \/ Length(Cross(<<0, 0, 1>>, Val(o, "orbitalPlaneNormal")))
              > Epsilon6(TrigUnit)
    THEN Objects_unitOf(o, "positionUnit", "position", TrigUnit)
    ELSE o

\* physics.calculateOrbitalParameters: the objects after the call.
Objects_calculateOrbitalParameters(position, velocity, centralMass) ==
    Objects_trueAnomaly(
        Objects_unitOf(
            Objects_eVector(
                New(Objects(<<"position", "velocity">>, <<position, velocity>>),
                    "h", Cross(position, velocity)),
                Mu(centralMass)),
            "orbitalPlaneNormal", "h", TrigUnit))

\* physics.propagateKeplerian reads the fields of orbitalParameters and
\* h.length(); position and velocity are new vectors.
Objects_propagateKeplerian(orbitalParameters, centralMass, deltaTime) ==
    Objects(<<"orbitalParameters", "h">>,
            << <<orbitalParameters.eccentricity,
                 orbitalParameters.semiMajorAxis,
                 orbitalParameters.inclination,
                 orbitalParameters.longitudeOfAscendingNode,
                 orbitalParameters.argumentOfPeriapsis,
                 orbitalParameters.trueAnomaly>>,
               orbitalParameters.h >>)

\* physics.js 386-397: normal is the object distanceVector; newPosition is
\* a clone of planetPosition, newVelocity a clone of velocity.
Objects_rebound(o, planetRadius, dot) ==
    InPlace(
        Objects_sub(
            Clone(
                InPlace(
                    InPlace(
                        Clone(
                            InPlace(
                                Clone(o, "normalCopy", "distanceVector"),
                                "normalCopy",
                                MultiplyScalar(Val(o, "distanceVector"),
                                               RDiv(planetRadius * 101, 100),
                                               TrigUnit)),
                            "newPosition", "planetPosition"),
                        "newPosition",
                        Add(Val(o, "planetPosition"),
                            MultiplyScalar(Val(o, "distanceVector"),
                                           RDiv(planetRadius * 101, 100),
                                           TrigUnit))),
                    "distanceVector",
                    MultiplyScalar(Val(o, "distanceVector"), 2 * dot, TrigUnit)),
                "newVelocity", "velocity"),
            "newVelocity", "distanceVector"),
        "newVelocity",
        MultiplyScalar(
            Sub(Val(o, "velocity"),
                MultiplyScalar(Val(o, "distanceVector"), 2 * dot, TrigUnit)),
            1, 2))

\* physics.js 378-386: the distance test and distanceVector.normalize().
Objects_collide(o, planetRadius) ==
    IF Less(Length(Val(o, "distanceVector")), planetRadius)
    THEN Objects_rebound(
             InPlace(o, "distanceVector",
                     Normalize(Val(o, "distanceVector"), TrigUnit)),
             planetRadius,
             RDiv(Dot(Val(o, "velocity"),
                      Normalize(Val(o, "distanceVector"), TrigUnit)),
                  TrigUnit))
    ELSE o

\* physics.handlePlanetCollision: the objects after the call.
Objects_handlePlanetCollision(position, planetPosition, planetRadius, velocity) ==
    Objects_collide(
        Objects_sub(
            Clone(Objects(<<"position", "planetPosition", "velocity">>,
                          <<position, planetPosition, velocity>>),
                  "distanceVector", "position"),
            "distanceVector", "planetPosition"),
        planetRadius)

(***************************************************************************)
(* Spacecraft (spacecraft.js, first class).  A spacecraft is a record      *)
(*   position, velocity    visualization vectors,                          *)
(*   forward               (0, 0, 1) turned by mesh.quaternion, 1/TrigUnit,*)
(*   isThrusting, useKeplerianModel, orbitalParameters,                    *)
(*   centralBody           TRUE when the field refers to the planet.       *)
(* A method yields the spacecraft it leaves behind and whether it threw.   *)
(***************************************************************************)
\* new Spacecraft()
Spacecraft_constructor(forward) ==
    [position          |-> ZeroVector,
     velocity          |-> ZeroVector,
     forward           |-> forward,
     isThrusting       |-> FALSE,
     useKeplerianModel |-> TRUE,
     orbitalParameters |-> Null,
     centralBody       |-> FALSE]

Returned(s) == [s |-> s, threw |-> FALSE]

\* A TypeError: the call of a method the object does not have.
Thrown(s) == [s |-> s, threw |-> TRUE]

\* Without a ScaleManager the spacecraft's numbers are handed to physics
\* unconverted: the same value, written in 1/RealUnit.
AsRealNumber(v) == MultiplyScalar(v, RealUnit, VisUnit)

AsVisNumber(v) == MultiplyScalar(v, VisUnit, RealUnit)

\* thrust / mass, the number added per second of thrust, in 1/VisUnit.
ThrustAcceleration == RDiv(SpacecraftThrust * VisUnit, SpacecraftMass)

\* Spacecraft.calculateOrbitalParameters without its first line.
Spacecraft_calculateOrbitalParameters_unguarded(s, scaleManager) ==
    IF scaleManager THEN Thrown(s)
    ELSE Returned([s EXCEPT !.orbitalParameters =
             physics_calculateOrbitalParameters(
                 AsRealNumber(Sub(s.position, PlanetPosition)),
                 AsRealNumber(s.velocity), PlanetMass)])

\* Spacecraft.calculateOrbitalParameters.  ScaleManager has no method
\* vectorToRealSpace, so the branch that uses it throws.
Spacecraft_calculateOrbitalParameters(s, scaleManager) ==
    IF ~s.centralBody THEN Returned(s)
    ELSE IF scaleManager THEN Thrown(s)
    ELSE Returned([s EXCEPT !.orbitalParameters =
             physics_calculateOrbitalParameters(
                 AsRealNumber(Sub(s.position, PlanetPosition)),
                 AsRealNumber(s.velocity), PlanetMass)])

\* Spacecraft.setPosition
Spacecraft_setPosition(s, newPosition, scaleManager) ==
    LET moved == [s EXCEPT !.position = newPosition]
    IN  IF ~s.isThrusting
        THEN Spacecraft_calculateOrbitalParameters(moved, scaleManager)
        ELSE Returned(moved)

\* Spacecraft.setVelocity
Spacecraft_setVelocity(s, newVelocity, scaleManager) ==
    LET moved == [s EXCEPT !.velocity = newVelocity]
    IN  IF ~s.isThrusting
        THEN Spacecraft_calculateOrbitalParameters(moved, scaleManager)
        ELSE Returned(moved)

\* Spacecraft.applyThrust: velocity += forward * (thrust / mass) * (1 / 60)
Spacecraft_applyThrust(s, isActive) ==
    IF isActive
    THEN [s EXCEPT !.isThrusting = TRUE,
                   !.velocity = Add(s.velocity,
                       MultiplyScalar(s.forward, ThrustAcceleration,
                                      60 * TrigUnit))]
    ELSE [s EXCEPT !.isThrusting = FALSE]

\* Spacecraft.setThrust
Spacecraft_setThrust(s, thrusting) == Spacecraft_applyThrust(s, thrusting)

\* position.add(velocity.clone().multiplyScalar(deltaTime))
Advance(s, deltaTime) ==
    [s EXCEPT !.position =
         Add(s.position, MultiplyScalar(s.velocity, deltaTime, TimeUnit))]

\* Spacecraft.update
Spacecraft_update(s, deltaTime, updatePosition) ==
    IF updatePosition
    THEN Advance(IF s.isThrusting THEN Spacecraft_applyThrust(s, TRUE) ELSE s,
                 deltaTime)
    ELSE IF s.isThrusting THEN Spacecraft_applyThrust(s, TRUE) ELSE s

\* Spacecraft.checkPlanetCollision: both branches call a method that does
\* not exist (ScaleManager.vectorToRealSpace, physics.checkPlanetCollision).
Spacecraft_checkPlanetCollision(s, scaleManager) ==
    IF ~s.centralBody THEN Returned(s) ELSE Thrown(s)

\* Spacecraft.applyGravity
Spacecraft_applyGravity(s, deltaTime, scaleManager) ==
    IF ~s.centralBody THEN Returned(s)
    ELSE IF scaleManager THEN Thrown(s)
    ELSE LET force == physics_calculateGravitationalForce(
                          SpacecraftMass, PlanetMass,
                          AsRealNumber(s.position), AsRealNumber(PlanetPosition))
             acceleration == AsVisNumber(DivideScalar(force, SpacecraftMass))
             pulled == [s EXCEPT !.velocity =
                           Add(s.velocity,
                               MultiplyScalar(acceleration, deltaTime, TimeUnit))]
         IN  Spacecraft_checkPlanetCollision(pulled, scaleManager)

\* thrustVector * (thrust / mass), in 1/VisUnit
Newtonian_acceleration(thrustVector, scaleManager) ==
    IF scaleManager
    THEN vectorToVisualizationSpace(
             MultiplyScalar(thrustVector, SpacecraftThrust * RealUnit,
                            SpacecraftMass * TrigUnit))
    ELSE MultiplyScalar(thrustVector, ThrustAcceleration, TrigUnit)

\* The end of Spacecraft.updateNewtonian: the position is advanced unless
\* applyGravity threw.
Newtonian_advance(pulled, deltaTime) ==
    IF pulled.threw THEN pulled ELSE Returned(Advance(pulled.s, deltaTime))

\* if (this.centralBody) this.applyGravity(deltaTime)
Newtonian_gravity(thrusted, deltaTime, scaleManager) ==
    Newtonian_advance(
        IF thrusted.centralBody
        THEN Spacecraft_applyGravity(thrusted, deltaTime, scaleManager)
        ELSE Returned(thrusted),
        deltaTime)

\* Spacecraft.updateNewtonian
Spacecraft_updateNewtonian(s, deltaTime, scaleManager) ==
    Newtonian_gravity(
        IF s.isThrusting
        THEN [s EXCEPT !.velocity =
                 Add(s.velocity,
                     MultiplyScalar(Newtonian_acceleration(s.forward,
                                                           scaleManager),
                                    deltaTime, TimeUnit))]
        ELSE s,
        deltaTime, scaleManager)

\* A method's result, with what Spacecraft.updateKeplerian did.
WithOutcome(result, outcome) ==
    [s |-> result.s, threw |-> result.threw, outcome |-> outcome]

\* A vector handed back by physics, as the spacecraft stores it.
Keplerian_toVisualization(v, scaleManager) ==
    IF scaleManager THEN vectorToVisualizationSpace(v) ELSE AsVisNumber(v)

\* The body of Spacecraft.updateKeplerian after propagateKeplerian returned.
Keplerian_apply(s, newState, deltaTime, scaleManager) ==
    IF IsUnmodelled(newState) THEN Unmodelled
    ELSE IF IsNull(newState)
    THEN WithOutcome(
             Spacecraft_updateNewtonian([s EXCEPT !.useKeplerianModel = FALSE],
                                        deltaTime, scaleManager),
             "fallback")
    ELSE WithOutcome(
             Spacecraft_checkPlanetCollision(
                 [s EXCEPT
                    !.position =
                        Add(Keplerian_toVisualization(newState.position,
                                                      scaleManager),
                            PlanetPosition),
                    !.velocity =
                        Keplerian_toVisualization(newState.velocity,
                                                  scaleManager),
                    !.orbitalParameters =
                        [s.orbitalParameters EXCEPT !.trueAnomaly =
                             Property(newState, "trueAnomaly")]],
                 scaleManager),
             "propagated")

\* Spacecraft.updateKeplerian.  propagateKeplerian returns { position,
\* velocity }: the trueAnomaly read from it is undefined.
Spacecraft_updateKeplerian(s, deltaTime, scaleManager) ==
    IF ~s.centralBody \/ IsNull(s.orbitalParameters)
    THEN WithOutcome(Returned(s), "skipped")
    ELSE Keplerian_apply(s,
                         physics_propagateKeplerian(s.orbitalParameters,
                                                    PlanetMass, deltaTime),
                         deltaTime, scaleManager)

(***************************************************************************)
(* Scene (scene.js, first class).                                          *)
(***************************************************************************)
\* timeWarp.available
available == <<1, 2, 5, 10, 50, 100, 1000>>

\* increaseTimeWarp with the guard currentIndex < available.length: one step
\* past the last entry the factor read from the list is undefined.
Scene_increaseTimeWarp_pastEnd(tw) ==
    IF tw.currentIndex < Len(available)
    THEN [currentIndex |-> tw.currentIndex + 1,
          factor       |-> IF tw.currentIndex + 2 <= Len(available)
                           THEN available[tw.currentIndex + 2] ELSE Undefined,
          active       |-> tw.currentIndex + 2 <= Len(available)]
    ELSE tw

\* Scene.increaseTimeWarp
Scene_increaseTimeWarp(tw) ==
    IF tw.currentIndex < Len(available) - 1
    THEN [currentIndex |-> tw.currentIndex + 1,
          factor       |-> available[tw.currentIndex + 2],
          active       |-> available[tw.currentIndex + 2] > 1]
    ELSE tw

\* A decrease that returns to the first entry of the list.
Scene_decreaseTimeWarp_toFirst(tw) ==
    IF tw.currentIndex > 0
    THEN [currentIndex |-> 0,
          factor       |-> available[1],
          active       |-> available[1] > 1]
    ELSE tw

\* Scene.decreaseTimeWarp
Scene_decreaseTimeWarp(tw) ==
    IF tw.currentIndex > 0
    THEN [currentIndex |-> tw.currentIndex - 1,
          factor       |-> available[tw.currentIndex],
          active       |-> available[tw.currentIndex] > 1]
    ELSE tw

\* Elements of the state the spacecraft had half a second of coasting ago.
Scene_calculateOrbitalParameters_earlier(s) ==
    physics_calculateOrbitalParameters(
        vectorToRealWorld(Sub(Sub(s.position, PlanetPosition),
                              MultiplyScalar(s.velocity, 1, 2))),
        vectorToRealWorld(s.velocity), PlanetMass)

\* Scene.calculateOrbitalParameters, with planet, spacecraft and
\* ScaleManager present: elements of the spacecraft's current state.
Scene_calculateOrbitalParameters(s) ==
    LET scaledPosition == Sub(s.position, PlanetPosition)
        realPosition   == vectorToRealWorld(scaledPosition)
        realVelocity   == vectorToRealWorld(s.velocity)
    IN  physics_calculateOrbitalParameters(realPosition, realVelocity, PlanetMass)

\* The states whose numbers the representation carries: a finite position
\* within MaxCoordinate that is at the centre or at least MinDistance from
\* it, a finite velocity within MaxSpeed; or a non-finite vector.
InRange(s) ==
    /\ \/ IsNaNVector(s.position)
       \/ /\ MaxAbs(s.position) <= MaxCoordinate
          /\ \/ s.position = PlanetPosition
             \/ Length(Sub(s.position, PlanetPosition)) >= MinDistance
    /\ \/ IsNaNVector(s.velocity)
       \/ MaxAbs(s.velocity) <= MaxSpeed

\* What one call of Scene.updatePhysics did (history, for the properties).
NoTick ==
    [mode |-> "none", factor |-> 0, thrusting |-> FALSE, afterCollision |-> FALSE,
     before |-> Null, collisionChecked |-> FALSE, collision |-> Null,
     elements |-> Null, propagated |-> "notCalled", gravitySteps |-> 0,
     subSteps |-> 0, integrated |-> Null, deltaTime |-> 0,
     warpedDeltaTime |-> 0, stepDeltaTime |-> <<0, 1>>, computed |-> Null,
     trail |-> <<>>]

\* A collision check that is skipped while the spacecraft is thrusting.
Scene_collisionCheck_coasting(s) ==
    IF s.isThrusting THEN Null
    ELSE physics_handlePlanetCollision(s.position, PlanetPosition, PlanetRadius,
                                       s.velocity)

\* scene.js 464-469: the collision check of a tick.
Scene_collisionCheck(s) ==
    physics_handlePlanetCollision(s.position, PlanetPosition, PlanetRadius,
                                  s.velocity)

\* A test of the time warp alone.
Scene_onRails_warpOnly(factor, isThrusting) == factor > 1

\* scene.js 478: time warp and not thrusting.
Scene_onRails(factor, isThrusting) == factor > 1 /\ ~isThrusting

\* scene.js 483: orbitalParameters && orbitalParameters.eccentricity < 1.0
Scene_isElliptical(orbitalParameters) ==
    /\ ~IsNull(orbitalParameters)
    /\ Less(orbitalParameters.eccentricity, EccUnit)

\* scene.js 525: thrusting with time warp.
Scene_subStepping(factor, isThrusting) == isThrusting /\ factor > 1

\* Math.min(20, Math.ceil(factor)): the limit of 20 instead of 10.
Scene_numSteps_twenty(factor) == Min(20, factor)

\* scene.js 528: Math.min(10, Math.ceil(factor))
Scene_numSteps(factor) == Min(10, factor)

\* scene.js 547-561 and 581-595: gravity of the planet added to the
\* velocity for a step of stepNum / stepDen seconds.
Scene_applyGravity(s, stepNum, stepDen) ==
    LET realForce == physics_calculateGravitationalForce(
                         SpacecraftMass, PlanetMass,
                         vectorToRealWorld(s.position),
                         vectorToRealWorld(PlanetPosition))
        visualForce  == vectorToVisualizationSpace(realForce)
        acceleration == DivideScalar(visualForce, SpacecraftMass)
    IN  [s EXCEPT !.velocity =
            Add(s.velocity,
                MultiplyScalar(acceleration, stepNum, stepDen * TimeUnit))]

\* scene.js 534-544: the thrust of the first substep,
\* velocity += forward * (thrust / mass) * normalDeltaTime
Scene_subStepThrust(s, i, normalDeltaTime) ==
    IF i = 0 /\ s.isThrusting
    THEN [s EXCEPT !.velocity =
             Add(s.velocity,
                 MultiplyScalar(s.forward, ThrustAcceleration * normalDeltaTime,
                                TrigUnit * TimeUnit))]
    ELSE s

\* scene.js 564-565: position += velocity * stepDeltaTime
Scene_subStepPosition(pulled, warpedDeltaTime, numSteps) ==
    [pulled EXCEPT !.position =
         Add(pulled.position,
             MultiplyScalar(pulled.velocity, warpedDeltaTime,
                            numSteps * TimeUnit))]

\* scene.js 532-566: substeps i .. numSteps - 1 of the loop; the spacecraft
\* after the loop, the number of times the body ran and, in trail, the
\* position and velocity at the start of each run of the body.
\* Scene_subStepMove and Scene_subStepNext are the second and third part of
\* the loop body.
RECURSIVE Scene_subSteps(_, _, _, _, _, _)
RECURSIVE Scene_subStepMove(_, _, _, _, _, _, _)
RECURSIVE Scene_subStepNext(_, _, _, _, _, _)
Scene_subSteps(s, i, numSteps, warpedDeltaTime, normalDeltaTime, trail) ==
    IF i >= numSteps THEN [s |-> s, steps |-> i, trail |-> trail]
    ELSE Scene_subStepMove(
             s,
             Scene_applyGravity(Scene_subStepThrust(s, i, normalDeltaTime),
                                warpedDeltaTime, numSteps),
             i, numSteps, warpedDeltaTime, normalDeltaTime, trail)

Scene_subStepMove(s, pulled, i, numSteps, warpedDeltaTime, normalDeltaTime, trail) ==
    IF ~InRange(pulled) THEN Unmodelled
    ELSE Scene_subStepNext(
             Scene_subStepPosition(pulled, warpedDeltaTime, numSteps),
             i, numSteps, warpedDeltaTime, normalDeltaTime,
             Append(trail, [position |-> s.position, velocity |-> s.velocity]))

Scene_subStepNext(moved, i, numSteps, warpedDeltaTime, normalDeltaTime, trail) ==
    IF ~InRange(moved) THEN Unmodelled
    ELSE Scene_subSteps(moved, i + 1, numSteps, warpedDeltaTime,
                        normalDeltaTime, trail)

\* A tick whose time step is not scaled by the factor.
Scene_startTick_unwarped(s, timeWarp, deltaTime, collided) ==
    [NoTick EXCEPT !.factor = timeWarp.factor,
                   !.deltaTime = deltaTime,
                   !.warpedDeltaTime = deltaTime,
                   !.thrusting = s.isThrusting,
                   !.afterCollision = collided,
                   !.before = [position |-> s.position,
                               velocity |-> s.velocity]]

\* The record of a tick that has just begun, with scene.js 414:
\* warpedDeltaTime = deltaTime * this.timeWarp.factor
Scene_startTick(s, timeWarp, deltaTime, collided) ==
    [NoTick EXCEPT !.factor = timeWarp.factor,
                   !.deltaTime = deltaTime,
                   !.warpedDeltaTime = deltaTime * timeWarp.factor,
                   !.thrusting = s.isThrusting,
                   !.afterCollision = collided,
                   !.before = [position |-> s.position,
                               velocity |-> s.velocity]]

\* A tick's result: the spacecraft, whether a call threw, the record.
Done(result, tick) == [s |-> result.s, threw |-> result.threw, tick |-> tick]

\* setVelocity(newVelocity) after setPosition returned.
Scene_placeVelocity(placed, newVelocity, scaleManager) ==
    IF placed.threw THEN placed
    ELSE Spacecraft_setVelocity(placed.s, newVelocity, scaleManager)

\* scene.js 472-473 and 507-508: setPosition, then setVelocity.
Scene_place(s, newPosition, newVelocity, scaleManager) ==
    Scene_placeVelocity(Spacecraft_setPosition(s, newPosition, scaleManager),
                        newVelocity, scaleManager)

\* The substep branch ending with spacecraft.update(warpedDeltaTime, true).
Scene_afterSubSteps_advancing(stepped, warpedDeltaTime, numSteps, tick) ==
    IF IsUnmodelled(stepped) THEN Unmodelled
    ELSE Done(Returned(Spacecraft_update(stepped.s, warpedDeltaTime, TRUE)),
              [tick EXCEPT !.mode = "substeps",
                           !.gravitySteps = stepped.steps,
                           !.subSteps = stepped.steps,
                           !.stepDeltaTime = <<warpedDeltaTime, numSteps>>,
                           !.integrated = stepped.s,
                           !.trail = stepped.trail])

\* scene.js 577: spacecraft.update(warpedDeltaTime, false) after the loop.
Scene_afterSubSteps(stepped, warpedDeltaTime, numSteps, tick) ==
    IF IsUnmodelled(stepped) THEN Unmodelled
    ELSE Done(Returned(Spacecraft_update(stepped.s, warpedDeltaTime, FALSE)),
              [tick EXCEPT !.mode = "substeps",
                           !.gravitySteps = stepped.steps,
                           !.subSteps = stepped.steps,
                           !.stepDeltaTime = <<warpedDeltaTime, numSteps>>,
                           !.integrated = stepped.s,
                           !.trail = stepped.trail])

\* scene.js 602: spacecraft.update(warpedDeltaTime, true) after gravity.
Scene_afterGravity(pulled, warpedDeltaTime, tick) ==
    IF ~InRange(pulled) THEN Unmodelled
    ELSE Done(Returned(Spacecraft_update(pulled, warpedDeltaTime, TRUE)),
              [tick EXCEPT !.mode = "numerical", !.gravitySteps = 1,
                           !.integrated = pulled])

\* scene.js 524-602: numerical integration, with substeps when thrusting
\* under time warp.
Scene_integrate(s, timeWarp, deltaTime, tick) ==
    IF Scene_subStepping(timeWarp.factor, s.isThrusting)
    THEN Scene_afterSubSteps(
             Scene_subSteps(s, 0, Scene_numSteps(timeWarp.factor),
                            tick.warpedDeltaTime, deltaTime, <<>>),
             tick.warpedDeltaTime, Scene_numSteps(timeWarp.factor), tick)
    ELSE Scene_afterGravity(
             Scene_applyGravity(s, tick.warpedDeltaTime, 1),
             tick.warpedDeltaTime, tick)

\* The propagated state followed by spacecraft.update(warpedDeltaTime, true).
Scene_keplerUpdate_advancing(moved, warpedDeltaTime, tick) ==
    IF moved.threw THEN Done(moved, tick)
    ELSE Done(Returned(Spacecraft_update(moved.s, warpedDeltaTime, TRUE)),
              tick)

\* scene.js 511: spacecraft.update(warpedDeltaTime, false) after the
\* propagated state was set.
Scene_keplerUpdate(moved, warpedDeltaTime, tick) ==
    IF moved.threw THEN Done(moved, tick)
    ELSE Done(Returned(Spacecraft_update(moved.s, warpedDeltaTime, FALSE)),
              tick)

\* scene.js 499-522: the use of what propagateKeplerian returned.
Scene_usePropagated(s, timeWarp, deltaTime, scaleManager, tick, propagated) ==
    IF IsUnmodelled(propagated) THEN Unmodelled
    ELSE IF ~IsNull(propagated)
    THEN Scene_keplerUpdate(
             Scene_place(s,
                         Add(vectorToVisualizationSpace(propagated.position),
                             PlanetPosition),
                         vectorToVisualizationSpace(propagated.velocity),
                         scaleManager),
             tick.warpedDeltaTime,
             [tick EXCEPT !.mode = "kepler", !.propagated = "state"])
    ELSE Scene_integrate(s, timeWarp, deltaTime,
                         [tick EXCEPT !.propagated = "null"])

\* scene.js 480-497: the elements decide whether the orbit is propagated.
Scene_rails(s, timeWarp, deltaTime, scaleManager, tick, orbitalParameters) ==
    IF Scene_isElliptical(orbitalParameters)
    THEN Scene_usePropagated(
             s, timeWarp, deltaTime, scaleManager,
             [tick EXCEPT !.elements = orbitalParameters,
                          !.computed = orbitalParameters],
             physics_propagateKeplerian(orbitalParameters, PlanetMass,
                                        tick.warpedDeltaTime))
    ELSE Scene_integrate(s, timeWarp, deltaTime,
                         [tick EXCEPT !.computed = orbitalParameters])

\* scene.js 471-522: tick.collision is what handlePlanetCollision returned.
Scene_afterCheck(s, timeWarp, deltaTime, scaleManager, tick) ==
    IF ~IsNull(tick.collision)
    THEN Done(Scene_place(s, tick.collision.position, tick.collision.velocity,
                          scaleManager),
              [tick EXCEPT !.mode = "collision"])
    ELSE IF Scene_onRails(timeWarp.factor, s.isThrusting)
    THEN Scene_rails(s, timeWarp, deltaTime, scaleManager, tick,
                     Scene_calculateOrbitalParameters(s))
    ELSE Scene_integrate(s, timeWarp, deltaTime, tick)

\* Scene.updatePhysics with a spacecraft in the scene.  The result is the
\* spacecraft it leaves behind and the record of what it did.
Scene_updatePhysics(s, timeWarp, deltaTime, planet, scaleManager, collided) ==
    IF ~planet
    THEN Done(Returned(Spacecraft_update(s, deltaTime * timeWarp.factor, TRUE)),
              [Scene_startTick(s, timeWarp, deltaTime, collided) EXCEPT !.mode = "free"])
    ELSE IF ~scaleManager
    THEN Done(Returned(s),
              [Scene_startTick(s, timeWarp, deltaTime, collided) EXCEPT !.mode = "idle"])
    ELSE Scene_afterCheck(
             s, timeWarp, deltaTime, scaleManager,
             [Scene_startTick(s, timeWarp, deltaTime, collided) EXCEPT
                 !.collisionChecked = TRUE,
                 !.collision = Scene_collisionCheck(s)])

\* An input step that turns the thrust on whatever the keys are.
Scene_processInput_thrusting(s, keys) == Spacecraft_setThrust(s, TRUE)

\* Scene.processInput: setThrust(keys.space).
Scene_processInput(s, keys) == Spacecraft_setThrust(s, keys.space)

(***************************************************************************)
(* State.                                                                  *)
(*   spacecraft    the Spacecraft object                                   *)
(*   timeWarp      Scene.timeWarp (factor, currentIndex, active)           *)
(*   keys          Scene.keys                                              *)
(*   planet        TRUE when Scene.planet is set                           *)
(*   scaleManager  TRUE when window.scaleManager is set                    *)
(*   threw         TRUE when the last call ended in an exception           *)
(*   frame         number of animation frames run                          *)
(*   keyEvents     number of key events handled                            *)
(*   collided      history: a frame has resolved a collision               *)
(*   lastTick      history: what the last Scene.updatePhysics did          *)
(*   calls         number of direct calls made                             *)
(*   call, ret     the last direct call and what it returned               *)
(***************************************************************************)
VARIABLES spacecraft, timeWarp, keys, planet, scaleManager, threw,
          frame, keyEvents, collided, lastTick, calls, call, ret

vars == <<spacecraft, timeWarp, keys, planet, scaleManager, threw,
          frame, keyEvents, collided, lastTick, calls, call, ret>>

sceneVars == <<timeWarp, keys, planet, frame, keyEvents, collided, lastTick>>

callVars == <<calls, call, ret>>

(***************************************************************************)
(* Bounds and inputs.                                                      *)
(***************************************************************************)
MaxFrames == 3

MaxKeyEvents == 3

\* clock.getDelta(): a frame of one second.
DeltaTimes == {TimeUnit}

\* mesh.quaternion applied to (0, 0, 1).
Forwards == {<<0, 0, TrigUnit>>, <<0, TrigUnit, 0>>}

\* Orbits the spacecraft is placed in (position, velocity in 1/VisUnit):
\* circular, elliptical through the planet, hyperbolic, near-parabolic,
\* inclined elliptical.
InitialOrbits ==
    { <<<<1000, 0, 0>>, <<0, 316, 0>>>>,
      <<<<600, 0, 0>>, <<-100, 200, 0>>>>,
      <<<<1000, 0, 0>>, <<0, 460, 0>>>>,
      <<<<1000, 0, 0>>, <<0, 2, 0>>>>,
      <<<<600, 800, 0>>, <<-200, 100, 150>>>> }

NoCall == [name |-> "none"]

(***************************************************************************)
(* The simulator as main.js builds it.  Its first init creates the         *)
(* ScaleManager, the scene and the planet, and places the spacecraft in    *)
(* its orbit by setPosition and setVelocity; its second init creates the   *)
(* scene and a spacecraft only.  Neither sets spacecraft.centralBody.      *)
(***************************************************************************)
Init ==
    /\ \/ /\ planet = TRUE
          /\ \E forward \in Forwards, orbit \in InitialOrbits :
                spacecraft =
                    Spacecraft_setVelocity(
                        Spacecraft_setPosition(Spacecraft_constructor(forward),
                                               orbit[1], TRUE).s,
                        orbit[2], TRUE).s
       \/ /\ planet = FALSE
          /\ \E forward \in Forwards :
                spacecraft = Spacecraft_constructor(forward)
    /\ timeWarp = [factor |-> 1, currentIndex |-> 0, active |-> FALSE]
    /\ keys = [space |-> FALSE]
    /\ scaleManager = TRUE
    /\ threw = FALSE
    /\ frame = 0
    /\ keyEvents = 0
    /\ collided = FALSE
    /\ lastTick = NoTick
    /\ calls = 0
    /\ call = NoCall
    /\ ret = Null

\* The state after updatePhysics returned done.
Ticked(done) ==
    /\ ~IsUnmodelled(done)
    /\ InRange(done.s)
    /\ spacecraft' = done.s
    /\ threw' = done.threw
    /\ lastTick' = done.tick
    /\ collided' = (collided \/ done.tick.mode = "collision")

\* updatePhysics(deltaTime) on the spacecraft processInput left.
Physics(input, deltaTime) ==
    /\ InRange(input)
    /\ Ticked(Scene_updatePhysics(input, timeWarp, deltaTime, planet,
                                  scaleManager, collided))

\* Scene.animate: processInput, then updatePhysics.
animate ==
    /\ frame < MaxFrames
    /\ \E deltaTime \in DeltaTimes :
          Physics(Scene_processInput(spacecraft, keys), deltaTime)
    /\ frame' = frame + 1
    /\ UNCHANGED <<timeWarp, keys, planet, scaleManager, keyEvents, calls, call,
                   ret>>

\* Scene.handleKeyDown for ' ', '.' and ','.
handleKeyDown ==
    \E key \in {" ", ".", ","} :
       /\ keyEvents < MaxKeyEvents
       /\ keys' = IF key = " " THEN [keys EXCEPT !.space = TRUE] ELSE keys
       /\ timeWarp' = IF key = "." THEN Scene_increaseTimeWarp(timeWarp)
                      ELSE IF key = "," THEN Scene_decreaseTimeWarp(timeWarp)
                      ELSE timeWarp
       /\ spacecraft' = IF key = " " THEN Spacecraft_applyThrust(spacecraft, TRUE)
                        ELSE spacecraft
       /\ keyEvents' = keyEvents + 1
       /\ InRange(spacecraft')
       /\ threw' = FALSE
       /\ UNCHANGED <<planet, scaleManager, frame, collided, lastTick,
                      calls, call, ret>>

\* Scene.handleKeyUp for ' '.
handleKeyUp ==
    /\ keyEvents < MaxKeyEvents
    /\ keys' = [keys EXCEPT !.space = FALSE]
    /\ spacecraft' = Spacecraft_applyThrust(spacecraft, FALSE)
    /\ keyEvents' = keyEvents + 1
    /\ threw' = FALSE
    /\ UNCHANGED <<timeWarp, planet, scaleManager, frame, collided, lastTick,
                   calls, call, ret>>

Next == animate \/ handleKeyDown \/ handleKeyUp

Spec == Init /\ [][Next]_vars

(***************************************************************************)
(* The Spacecraft class driven directly: a spacecraft whose centralBody is *)
(* the planet or unset, with or without a ScaleManager, and a caller that  *)
(* places it, switches thrust and steps it.                                *)
(***************************************************************************)
MaxCalls == 3

CraftPositions == {<<1000000, 0, 0>>, <<600000, 800000, 0>>}

CraftVelocities ==
    {<<0, 316000, 0>>, <<0, 460000, 0>>, <<-200000, 100000, 150000>>}

\* The spacecraft's numbers are within the range of the representation.
CraftInRange(s) ==
    /\ IsNaNVector(s.position) \/ MaxAbs(s.position) <= MaxCoordinate * InvScaleFactor
    /\ IsNaNVector(s.velocity) \/ MaxAbs(s.velocity) <= MaxSpeed * InvScaleFactor
    /\ InRange([s EXCEPT !.position = AsRealNumber(s.position),
                         !.velocity = AsRealNumber(s.velocity)])

InitCraft ==
    /\ \E forward \in Forwards, centralBody \in BOOLEAN :
          spacecraft = [Spacecraft_constructor(forward)
                            EXCEPT !.centralBody = centralBody]
    /\ timeWarp = [factor |-> 1, currentIndex |-> 0, active |-> FALSE]
    /\ keys = [space |-> FALSE]
    /\ planet = TRUE
    /\ scaleManager \in BOOLEAN
    /\ threw = FALSE
    /\ frame = 0
    /\ keyEvents = 0
    /\ collided = FALSE
    /\ lastTick = NoTick
    /\ calls = 0
    /\ call = NoCall
    /\ ret = Null

\* The bookkeeping of one direct call.
Called(name, argument, done) ==
    /\ calls < MaxCalls
    /\ ~IsUnmodelled(done)
    /\ CraftInRange(done.s)
    /\ spacecraft' = done.s
    /\ threw' = done.threw
    /\ calls' = calls + 1
    /\ call' = [name |-> name, argument |-> argument, before |-> spacecraft]
    /\ ret' = IF "outcome" \in DOMAIN done THEN [outcome |-> done.outcome]
              ELSE Null
    /\ UNCHANGED <<sceneVars, scaleManager>>

Craft_setPosition ==
    \E newPosition \in CraftPositions :
       Called("setPosition", newPosition,
              Spacecraft_setPosition(spacecraft, newPosition, scaleManager))

Craft_setVelocity ==
    \E newVelocity \in CraftVelocities :
       Called("setVelocity", newVelocity,
              Spacecraft_setVelocity(spacecraft, newVelocity, scaleManager))

Craft_setThrust ==
    \E thrusting \in BOOLEAN :
       Called("setThrust", thrusting,
              Returned(Spacecraft_setThrust(spacecraft, thrusting)))

Craft_updateKeplerian ==
    \E deltaTime \in DeltaTimes :
       Called("updateKeplerian", deltaTime,
              Spacecraft_updateKeplerian(spacecraft, deltaTime, scaleManager))

Craft_updateNewtonian ==
    \E deltaTime \in DeltaTimes :
       Called("updateNewtonian", deltaTime,
              Spacecraft_updateNewtonian(spacecraft, deltaTime, scaleManager))

Craft_checkPlanetCollision ==
    Called("checkPlanetCollision", 0,
           Spacecraft_checkPlanetCollision(spacecraft, scaleManager))

NextCraft ==
    \/ Craft_setPosition
    \/ Craft_setVelocity
    \/ Craft_setThrust
    \/ Craft_updateKeplerian
    \/ Craft_updateNewtonian
    \/ Craft_checkPlanetCollision

SpecCraft == InitCraft /\ [][NextCraft]_vars

(***************************************************************************)
(* The physics object called directly: elements computed from a state,     *)
(* propagateKeplerian on computed and on chosen elements, and              *)
(* handlePlanetCollision on positions inside, on and outside the planet.   *)
(***************************************************************************)
\* semiMajorAxis and eccentricity values put in place of the computed ones.
SemiMajorAxes == {NaN, Infinity, NegInfinity, 0, -783, 783}

Eccentricities == {NaN, 0, 6000, EccUnit - 1, EccUnit, EccUnit + 10000}

PropagationTimes == {0, TimeUnit, 50 * TimeUnit}

\* Positions (visualization space) at the centre of the planet, inside it,
\* on its surface and outside it.
CollisionPositions ==
    { <<0, 0, 0>>, <<300, 0, 0>>, <<0, -400, 0>>, <<100, 200, 200>>,
      <<-499, 0, 0>>, <<300, 400, 0>>, <<0, 0, 600>>, <<1, 0, 0>> }

CollisionVelocities == {<<0, 0, 0>>, <<-100, 200, 0>>, <<50, -50, 10>>}

\* The elements of an orbit of InitialOrbits, as the scene computes them.
OrbitElements(orbit) ==
    physics_calculateOrbitalParameters(vectorToRealWorld(orbit[1]),
                                       vectorToRealWorld(orbit[2]), PlanetMass)

InitPhysics ==
    /\ spacecraft = Spacecraft_constructor(<<0, 0, TrigUnit>>)
    /\ timeWarp = [factor |-> 1, currentIndex |-> 0, active |-> FALSE]
    /\ keys = [space |-> FALSE]
    /\ planet = TRUE
    /\ scaleManager = TRUE
    /\ threw = FALSE
    /\ frame = 0
    /\ keyEvents = 0
    /\ collided = FALSE
    /\ lastTick = NoTick
    /\ calls = 0
    /\ call = NoCall
    /\ ret = Null

\* The bookkeeping of one call of a function of physics.
Computed(request, result) ==
    /\ ~IsUnmodelled(result)
    /\ call' = request
    /\ ret' = result
    /\ UNCHANGED <<spacecraft, sceneVars, scaleManager, threw, calls>>

Physics_calculateOrbitalParameters ==
    \E orbit \in InitialOrbits :
       Computed([name |-> "calculateOrbitalParameters",
                 position |-> vectorToRealWorld(orbit[1]),
                 velocity |-> vectorToRealWorld(orbit[2])],
                OrbitElements(orbit))

\* propagateKeplerian(orbitalParameters, PlanetMass, deltaTime)
Propagated(orbitalParameters, deltaTime) ==
    Computed([name |-> "propagateKeplerian",
              orbitalParameters |-> orbitalParameters,
              deltaTime |-> deltaTime],
             physics_propagateKeplerian(orbitalParameters, PlanetMass,
                                        deltaTime))

\* The elements with semiMajorAxis and eccentricity replaced.
Retuned(elements, semiMajorAxis, eccentricity) ==
    [elements EXCEPT !.semiMajorAxis = semiMajorAxis,
                     !.eccentricity = eccentricity]

Physics_propagateComputed ==
    \E orbit \in InitialOrbits, deltaTime \in PropagationTimes :
       Propagated(OrbitElements(orbit), deltaTime)

Physics_propagateChosen ==
    \E orbit \in InitialOrbits, semiMajorAxis \in SemiMajorAxes,
       eccentricity \in Eccentricities, deltaTime \in PropagationTimes :
       Propagated(Retuned(OrbitElements(orbit), semiMajorAxis, eccentricity),
                  deltaTime)

Physics_handlePlanetCollision ==
    \E position \in CollisionPositions, velocity \in CollisionVelocities :
       Computed([name |-> "handlePlanetCollision", position |-> position,
                 velocity |-> velocity],
                physics_handlePlanetCollision(position, PlanetPosition,
                                              PlanetRadius, velocity))

\* Mean anomalies inside and outside [0, 2 pi), and eccentricities up to
\* 0.99.
MeanAnomalies ==
    {0, 1, 300, 1000, HalfPi, 2500, Pi, 4000, 5000, TwoPi - 1, TwoPi,
     0 - 1000, 0 - 7000, 9000}

SolverEccentricities ==
    {0, 2000, 6000, 10000, 14000, 16000, 16001, 18000, 18999, 19000, 19800}

Physics_solveKepler ==
    \E M \in MeanAnomalies, e \in SolverEccentricities :
       Computed([name |-> "solveKepler", M |-> M, e |-> e], SolveKepler(M, e))

\* Real-world positions of the two objects, and the masses of object 1.
ForcePositions1 ==
    { <<1000, 0, 0>>, <<0, -800, 0>>, <<300, 400, 0>>, <<-600, 300, 500>>,
      <<600, -300, 500>> }

ForcePositions2 == {<<0, 0, 0>>, <<300, 400, 0>>, <<-200, 100, -200>>}

ForceMasses == {10, SpacecraftMass}

Physics_calculateGravitationalForce ==
    \E mass1 \in ForceMasses, position1 \in ForcePositions1,
       position2 \in ForcePositions2 :
       Computed([name |-> "calculateGravitationalForce",
                 arguments |-> <<mass1, PlanetMass, position1, position2>>],
                [force |-> physics_calculateGravitationalForce(
                               mass1, PlanetMass, position1, position2)])

\* Real-world states on elliptical orbits: equatorial, inclined and polar,
\* prograde and retrograde, circular and eccentric, with the periapsis and
\* the position on and off the x axis.
RoundTripStates ==
    { <<<<1000, 0, 0>>, <<0, 316, 0>>>>,
      <<<<600, 0, 0>>, <<-100, 200, 0>>>>,
      <<<<600, 800, 0>>, <<-253, 190, 0>>>>,
      <<<<400, 0, 0>>, <<0, 500, 0>>>>,
      <<<<0, 400, 0>>, <<-500, 0, 0>>>>,
      <<<<600, 800, 0>>, <<-200, 100, 150>>>>,
      <<<<1000, 0, 0>>, <<0, 200, 200>>>>,
      <<<<400, 0, 0>>, <<0, 300, 400>>>>,
      <<<<0, 600, -800>>, <<316, 0, 0>>>>,
      <<<<1000, 0, 0>>, <<0, 0, 300>>>>,
      <<<<600, 300, -200>>, <<-100, -200, 150>>>>,
      <<<<1000, 0, 0>>, <<0, -250, 0>>>>,
      <<<<600, 0, 0>>, <<-100, -200, 0>>>>,
      <<<<600, 800, 0>>, <<200, -150, 0>>>>,
      <<<<0, 400, 0>>, <<500, 0, 0>>>> }

\* calculateOrbitalParameters, then propagateKeplerian over deltaTime 0.
Physics_roundTrip ==
    \E state \in RoundTripStates :
       Computed([name |-> "roundTrip", position |-> state[1],
                 velocity |-> state[2]],
                physics_propagateKeplerian(
                    physics_calculateOrbitalParameters(state[1], state[2],
                                                       PlanetMass),
                    PlanetMass, 0))

\* The bookkeeping of a call whose argument objects are followed: the
\* values passed, the values the same objects hold afterwards, and the
\* objects the call created.
Followed(operation, names, values, objects) ==
    Computed([name |-> "objects", arguments |-> values,
              operation |-> operation],
             [after   |-> Values(objects, names),
              created |-> DOMAIN objects.ref \ {names[i] : i \in 1 .. Len(names)}])

Arguments_calculateGravitationalForce ==
    \E mass1 \in ForceMasses, position1 \in ForcePositions1,
       position2 \in ForcePositions2 :
       Followed("calculateGravitationalForce", <<"position1", "position2">>,
                <<position1, position2>>,
                Objects_calculateGravitationalForce(mass1, PlanetMass,
                                                    position1, position2))

Arguments_calculateOrbitalParameters ==
    \E orbit \in InitialOrbits :
       Followed("calculateOrbitalParameters", <<"position", "velocity">>,
                <<vectorToRealWorld(orbit[1]), vectorToRealWorld(orbit[2])>>,
                Objects_calculateOrbitalParameters(
                    vectorToRealWorld(orbit[1]), vectorToRealWorld(orbit[2]),
                    PlanetMass))

Arguments_propagateKeplerian ==
    \E orbit \in InitialOrbits, deltaTime \in PropagationTimes :
       Followed("propagateKeplerian", <<"orbitalParameters", "h">>,
                Values(Objects_propagateKeplerian(OrbitElements(orbit),
                                                  PlanetMass, 0),
                       <<"orbitalParameters", "h">>),
                Objects_propagateKeplerian(OrbitElements(orbit), PlanetMass,
                                           deltaTime))

Arguments_handlePlanetCollision ==
    \E position \in CollisionPositions, velocity \in CollisionVelocities :
       Followed("handlePlanetCollision",
                <<"position", "planetPosition", "velocity">>,
                <<position, PlanetPosition, velocity>>,
                Objects_handlePlanetCollision(position, PlanetPosition,
                                              PlanetRadius, velocity))

NextPhysics ==
    \/ Physics_solveKepler
    \/ Physics_roundTrip
    \/ Physics_calculateGravitationalForce
    \/ Physics_calculateOrbitalParameters
    \/ Physics_propagateComputed
    \/ Physics_propagateChosen
    \/ Physics_handlePlanetCollision
    \/ Arguments_calculateGravitationalForce
    \/ Arguments_calculateOrbitalParameters
    \/ Arguments_propagateKeplerian
    \/ Arguments_handlePlanetCollision

SpecPhysics == InitPhysics /\ [][NextPhysics]_vars

(***************************************************************************)
(* Frames of a scene whose player has already chosen a time warp level and *)
(* may hold the space bar: the ticks at every factor of the list, with     *)
(* frames of a second and of a fiftieth of a second.                       *)
(***************************************************************************)
MaxTicks == 2

\* clock.getDelta(): 1/50 s and 1 s.
FrameTimes == {1, TimeUnit}

\* The time warp after '.' was pressed presses times.
RECURSIVE WarpLevel(_)
WarpLevel(presses) ==
    IF presses = 0 THEN [factor |-> 1, currentIndex |-> 0, active |-> FALSE]
    ELSE Scene_increaseTimeWarp(WarpLevel(presses - 1))

\* The orbits of InitialOrbits, a craft skimming the surface at a distance of
\* exactly the planet's radius, and a new Spacecraft that was added to the
\* scene where its constructor left it, at the origin, which is the planet's
\* centre.
TickOrbits ==
    InitialOrbits \cup { <<<<300, 400, 0>>, <<-160, 120, 0>>>>,
                         <<ZeroVector, ZeroVector>> }

InitTick ==
    /\ planet = TRUE
    /\ \E forward \in Forwards, orbit \in TickOrbits, space \in BOOLEAN :
          /\ keys = [space |-> space]
          /\ spacecraft =
                Spacecraft_applyThrust(
                    Spacecraft_setVelocity(
                        Spacecraft_setPosition(Spacecraft_constructor(forward),
                                               orbit[1], TRUE).s,
                        orbit[2], TRUE).s,
                    space)
    /\ InRange(spacecraft)
    /\ \E presses \in 0 .. Len(available) - 1 : timeWarp = WarpLevel(presses)
    /\ scaleManager = TRUE
    /\ threw = FALSE
    /\ frame = 0
    /\ keyEvents = 0
    /\ collided = FALSE
    /\ lastTick = NoTick
    /\ calls = 0
    /\ call = NoCall
    /\ ret = Null

\* Scene.animate with a frame time of FrameTimes.
Tick_animate ==
    /\ frame < MaxTicks
    /\ \E deltaTime \in FrameTimes :
          Physics(Scene_processInput(spacecraft, keys), deltaTime)
    /\ frame' = frame + 1
    /\ UNCHANGED <<timeWarp, keys, planet, scaleManager, keyEvents, calls, call,
                   ret>>

SpecTick == InitTick /\ [][Tick_animate]_vars

(***************************************************************************)
(* The time warp alone: Scene.increaseTimeWarp and Scene.decreaseTimeWarp   *)
(* called in any order on a new Scene.                                     *)
(***************************************************************************)
MaxWarpCalls == 12

InitWarp ==
    /\ spacecraft = Spacecraft_constructor(<<0, 0, TrigUnit>>)
    /\ timeWarp = [factor |-> 1, currentIndex |-> 0, active |-> FALSE]
    /\ keys = [space |-> FALSE]
    /\ planet = TRUE
    /\ scaleManager = TRUE
    /\ threw = FALSE
    /\ frame = 0
    /\ keyEvents = 0
    /\ collided = FALSE
    /\ lastTick = NoTick
    /\ calls = 0
    /\ call = NoCall
    /\ ret = Null

\* The bookkeeping of one call that changes the time warp.
Warped(name, tw) ==
    /\ calls < MaxWarpCalls
    /\ timeWarp' = tw
    /\ calls' = calls + 1
    /\ call' = [name |-> name, before |-> timeWarp]
    /\ UNCHANGED <<spacecraft, keys, planet, scaleManager, threw, frame,
                   keyEvents, collided, lastTick, ret>>

Warp_increaseTimeWarp ==
    Warped("increaseTimeWarp", Scene_increaseTimeWarp(timeWarp))

Warp_decreaseTimeWarp ==
    Warped("decreaseTimeWarp", Scene_decreaseTimeWarp(timeWarp))

NextWarp == Warp_increaseTimeWarp \/ Warp_decreaseTimeWarp

SpecWarp == InitWarp /\ [][NextWarp]_vars

(***************************************************************************)
(* A scene without a planet, as the second init of main.js builds it, and  *)
(* a spacecraft whose centralBody was never set: frames at every time warp *)
(* level, and direct calls of the Spacecraft methods that need a central    *)
(* body.                                                                   *)
(***************************************************************************)
\* The new spacecraft, at rest at the origin, and crafts that are adrift.
IdleStates == {<<ZeroVector, ZeroVector>>} \cup InitialOrbits

InitIdle ==
    /\ planet = FALSE
    /\ \E forward \in Forwards, state \in IdleStates, space \in BOOLEAN :
          /\ keys = [space |-> space]
          /\ spacecraft =
                Spacecraft_applyThrust(
                    Spacecraft_setVelocity(
                        Spacecraft_setPosition(Spacecraft_constructor(forward),
                                               state[1], TRUE).s,
                        state[2], TRUE).s,
                    space)
    /\ \E presses \in 0 .. Len(available) - 1 : timeWarp = WarpLevel(presses)
    /\ scaleManager \in BOOLEAN
    /\ threw = FALSE
    /\ frame = 0
    /\ keyEvents = 0
    /\ collided = FALSE
    /\ lastTick = NoTick
    /\ calls = 0
    /\ call = NoCall
    /\ ret = Null

\* Scene.animate with a frame time of FrameTimes.
Idle_animate ==
    /\ frame < MaxTicks
    /\ \E deltaTime \in FrameTimes :
          Physics(Scene_processInput(spacecraft, keys), deltaTime)
    /\ frame' = frame + 1
    /\ UNCHANGED <<timeWarp, keys, planet, scaleManager, keyEvents, calls, call,
                   ret>>

\* The bookkeeping of one direct call on the spacecraft.
IdleCalled(name, done) ==
    /\ calls < MaxCalls
    /\ ~IsUnmodelled(done)
    /\ InRange(done.s)
    /\ spacecraft' = done.s
    /\ threw' = done.threw
    /\ calls' = calls + 1
    /\ call' = [name |-> name]
    /\ UNCHANGED <<sceneVars, scaleManager, ret>>

Idle_calculateOrbitalParameters ==
    IdleCalled("calculateOrbitalParameters",
               Spacecraft_calculateOrbitalParameters(spacecraft, scaleManager))

Idle_updateKeplerian ==
    \E deltaTime \in FrameTimes :
       IdleCalled("updateKeplerian",
                  Spacecraft_updateKeplerian(spacecraft, deltaTime,
                                             scaleManager))

Idle_checkPlanetCollision ==
    IdleCalled("checkPlanetCollision",
               Spacecraft_checkPlanetCollision(spacecraft, scaleManager))

NextIdle ==
    \/ Idle_animate
    \/ Idle_calculateOrbitalParameters
    \/ Idle_updateKeplerian
    \/ Idle_checkPlanetCollision

SpecIdle == InitIdle /\ [][NextIdle]_vars

(***************************************************************************)
(* Properties of Spec: the ticks of Scene.updatePhysics.                   *)
(***************************************************************************)
\* The modes in which a tick advances the state by numerical integration.
Integrating == {"numerical", "substeps", "free"}

\* A tick is propagated only under time warp, without thrust, on elements
\* with eccentricity < 1.
KeplerOnlyOnRails ==
    lastTick.mode = "kepler" =>
        /\ lastTick.factor > 1
        /\ ~lastTick.thrusting
        /\ Less(lastTick.elements.eccentricity, EccUnit)

\* C1 as stated: a tick is propagated only if the factor is > 1, the
\* spacecraft is not thrusting and the elements have eccentricity < 1; every
\* tick with thrust engaged or factor 1 is advanced by numerical integration
\* and propagateKeplerian is not called in it.
C1_ThrustOrNoWarpIntegrates ==
    lastTick.mode # "none" =>
        /\ KeplerOnlyOnRails
        /\ (lastTick.thrusting \/ lastTick.factor = 1) =>
               /\ lastTick.mode \in Integrating
               /\ lastTick.propagated = "notCalled"

\* C1, amended: a tick is propagated only if the factor is > 1, the
\* spacecraft is not thrusting and the elements have eccentricity < 1; every
\* tick with thrust engaged or factor 1 that does not resolve a collision is
\* advanced by numerical integration, and propagateKeplerian is called in no
\* tick with thrust engaged or factor 1.
C1_ThrustOrNoWarpIntegratesUnlessCollision ==
    lastTick.mode # "none" =>
        /\ KeplerOnlyOnRails
        /\ (lastTick.thrusting \/ lastTick.factor = 1) =>
               /\ lastTick.mode # "collision" => lastTick.mode \in Integrating
               /\ lastTick.propagated = "notCalled"

\* A tick under time warp with thrust engaged, advanced in substeps.
C1_Witness ==
    /\ lastTick.mode = "substeps"
    /\ lastTick.thrusting
    /\ lastTick.factor > 1

\* C2: once a tick has resolved a collision, no later tick advances the
\* state by Keplerian propagation.
C2_NumericalAfterCollision ==
    lastTick.afterCollision => lastTick.mode # "kepler"

\* What handlePlanetCollision returns for the spacecraft as processInput
\* leaves it in this frame.
Resolved ==
    physics_handlePlanetCollision(
        spacecraft.position, PlanetPosition, PlanetRadius,
        Scene_processInput(spacecraft, keys).velocity)

\* C3: every tick with the planet present runs the collision check; the tick
\* resolves a collision exactly when the spacecraft is strictly inside the
\* radius, and then leaves position and velocity as the resolver returned
\* them, with no gravity step, no substep and no call of propagateKeplerian.
C3_CollisionShortCircuits ==
    [][(frame' # frame /\ planet) =>
          /\ lastTick'.collisionChecked
          /\ (lastTick'.mode = "collision")
                = Less(Length(Sub(spacecraft.position, PlanetPosition)),
                       PlanetRadius)
          /\ lastTick'.mode = "collision" =>
                /\ spacecraft'.position = Resolved.position
                /\ spacecraft'.velocity = Resolved.velocity
                /\ lastTick'.gravitySteps = 0
                /\ lastTick'.subSteps = 0
                /\ lastTick'.propagated = "notCalled"]_vars

\* A collision resolved in a tick under time warp with thrust engaged.
C3_Witness ==
    /\ lastTick.mode = "collision"
    /\ lastTick.factor > 1
    /\ lastTick.thrusting

\* C6: in a tick with thrust engaged under time warp, the velocity the
\* substep loop leaves (with the impulse of the first substep) is the
\* velocity at the end of the tick: nothing is added after the loop.
C6_ThrustOnce ==
    [][(frame' # frame /\ lastTick'.mode = "substeps") =>
          spacecraft'.velocity = lastTick'.integrated.velocity]_vars

\* C7: the elements handed to propagateKeplerian in a tick are the elements
\* of the position and velocity the spacecraft has when the tick begins.
C7_ElementsOfCurrentState ==
    [][(frame' # frame /\ lastTick'.propagated # "notCalled") =>
          lastTick'.elements =
              physics_calculateOrbitalParameters(
                  vectorToRealWorld(Sub(spacecraft.position, PlanetPosition)),
                  vectorToRealWorld(spacecraft.velocity), PlanetMass)]_vars

\* A propagated tick after a collision rebound.
C7_Witness ==
    /\ lastTick.mode = "kepler"
    /\ lastTick.afterCollision
    /\ lastTick.propagated = "state"

\* C15: the elements calculateOrbitalParameters returned in a tick have
\* eccentricity >= 0, apoapsis and orbitalPeriod +Infinity when the
\* eccentricity is >= 1, and semiMajorAxis +Infinity when the eccentricity
\* is within 1e-4 of 1.
C15_ElementsWellFormed ==
    ~IsNull(lastTick.computed) =>
        /\ GreaterEq(lastTick.computed.eccentricity, 0)
        /\ GreaterEq(lastTick.computed.eccentricity, EccUnit) =>
               /\ Apoapsis(lastTick.computed.semiMajorAxis,
                           lastTick.computed.eccentricity) = Infinity
               /\ OrbitalPeriod(Mu(PlanetMass),
                                lastTick.computed.semiMajorAxis,
                                lastTick.computed.eccentricity) = Infinity
        /\ (/\ IsFinite(lastTick.computed.eccentricity)
            /\ Abs(lastTick.computed.eccentricity - EccUnit)
                   < EccUnit \div 10000) =>
               lastTick.computed.semiMajorAxis = Infinity

\* C14: a tick leaves the time warp and the keys as they were, and the one
\* factor the tick began with gives its warped time step, decides between
\* propagation, substeps and a plain step, and gives the number of substeps.
C14_FactorFixedWithinTick ==
    [][frame' # frame =>
          /\ timeWarp' = timeWarp
          /\ keys' = keys
          /\ keyEvents' = keyEvents
          /\ lastTick'.warpedDeltaTime = lastTick'.deltaTime * timeWarp.factor
          /\ lastTick'.mode = "kepler" =>
                 timeWarp.factor > 1 /\ ~lastTick'.thrusting
          /\ lastTick'.mode \in {"kepler", "substeps", "numerical"} =>
                 ((lastTick'.mode = "substeps")
                      = (lastTick'.thrusting /\ timeWarp.factor > 1))
          /\ lastTick'.mode = "substeps" =>
                 lastTick'.subSteps
                     = IF timeWarp.factor < 10 THEN timeWarp.factor ELSE 10]_vars

\* A second frame, propagated at a factor the keys set before it.
C14_Witness ==
    /\ frame >= 2
    /\ lastTick.mode = "kepler"
    /\ lastTick.factor > 1
    /\ keyEvents >= 1

\* C28: setting the thrust state changes only isThrusting and the thruster's
\* visual: a key event, whose handler calls applyThrust, leaves the position
\* and the velocity of the spacecraft as they were.
C28_ThrustStateOnly ==
    [][keyEvents' # keyEvents =>
          /\ spacecraft'.position = spacecraft.position
          /\ spacecraft'.velocity = spacecraft.velocity]_vars

\* C29: at the start of every Scene.updatePhysics call with a spacecraft
\* attached, spacecraft.isThrusting equals keys.space.
C29_ThrustFollowsSpaceBar ==
    [][frame' # frame => lastTick'.thrusting = keys.space]_vars

\* A tick that began with the space bar down and the thrust on, after a
\* tick with the space bar up.
C29_Witness ==
    /\ frame >= 2
    /\ lastTick.mode # "none"
    /\ lastTick.thrusting
    /\ keys.space
    /\ keyEvents = 1

(***************************************************************************)
(* Properties of SpecPhysics.                                              *)
(***************************************************************************)
\* C4: propagateKeplerian returns null exactly when semiMajorAxis is not
\* finite, NaN or <= 0, or eccentricity is not < 1.
C4_NullUnlessElliptic ==
    call.name = "propagateKeplerian" =>
        (IsNull(ret) <=>
            ~(/\ IsFinite(call.orbitalParameters.semiMajorAxis)
              /\ call.orbitalParameters.semiMajorAxis > 0
              /\ Less(call.orbitalParameters.eccentricity, EccUnit)))

\* C10: for a position strictly inside the radius handlePlanetCollision
\* returns a position at planetRadius * 1.01 from the centre (within the
\* rounding of the representation).
C10_ReboundOutside ==
    (/\ call.name = "handlePlanetCollision"
     /\ Less(Length(Sub(call.position, PlanetPosition)), PlanetRadius)) =>
        /\ ~IsNull(ret)
        /\ Abs(Length(Sub(ret.position, PlanetPosition))
               - RDiv(PlanetRadius * 101, 100)) <= 2

\* C11: for a position strictly inside the radius and any incoming velocity,
\* the velocity handlePlanetCollision returns has a strictly positive
\* component along the outward normal.
C11_ReboundOutward ==
    (/\ call.name = "handlePlanetCollision"
     /\ Less(Length(Sub(call.position, PlanetPosition)), PlanetRadius)) =>
        /\ ~IsNull(ret)
        /\ Dot(ret.velocity,
               Normalize(Sub(call.position, PlanetPosition), TrigUnit)) > 0

\* C16: solveKepler returns after at most 30 iterations of its loop, never
\* iterates again after a Newton step within the tolerance, has taken such a
\* step whenever it returns before the 30th iteration, and returns a number
\* of [0, 2 pi) also when the 30 iterations did not converge.
C16_SolveKeplerTerminates ==
    call.name = "solveKepler" =>
        /\ ret.i = Len(ret.steps)
        /\ ret.i \in 1 .. MAX_ITERATIONS
        /\ \A k \in 1 .. ret.i - 1 : Abs(ret.steps[k]) > TOLERANCE
        /\ ret.i < MAX_ITERATIONS => Abs(ret.steps[ret.i]) <= TOLERANCE
        /\ ret.E \in 0 .. TwoPi - 1

\* A call that used the 30 iterations without a step within the tolerance.
C16_Witness ==
    /\ call.name = "solveKepler"
    /\ ret.i = MAX_ITERATIONS
    /\ Abs(ret.steps[MAX_ITERATIONS]) > TOLERANCE

\* The largest difference between the components of two vectors.
Apart(a, b) == MaxAbs(Sub(a, b))

\* C17: for distinct positions the force returned by
\* calculateGravitationalForce(mass1, mass2, position1, position2) has the
\* direction of position2 - position1 (unit vectors equal within 0.002) and
\* the magnitude G * mass1 * mass2 / r^2 (within 1 % and 0.3 units of force).
C17_ForceTowardSecond ==
    (/\ call.name = "calculateGravitationalForce"
     /\ call.arguments[3] # call.arguments[4]) =>
        /\ ~IsNaNVector(ret.force)
        /\ Dot(ret.force, Sub(call.arguments[4], call.arguments[3])) > 0
        /\ Apart(Normalize(ret.force, TrigUnit),
                 Normalize(Sub(call.arguments[4], call.arguments[3]),
                           TrigUnit)) <= 2
        /\ Abs(Length(ret.force)
               - RDiv(call.arguments[1]
                      * RDiv(Mu(call.arguments[2]) * 10,
                             Dot(Sub(call.arguments[4], call.arguments[3]),
                                 Sub(call.arguments[4], call.arguments[3]))),
                      10)) * 100
             <= Length(ret.force) + 300

\* A force between distinct positions that differ in every coordinate.
C17_Witness ==
    /\ call.name = "calculateGravitationalForce"
    /\ call.arguments[3] = <<-600, 300, 500>>
    /\ call.arguments[4] = <<-200, 100, -200>>
    /\ ret.force[1] > 0 /\ ret.force[2] < 0 /\ ret.force[3] < 0

\* C18: calculateOrbitalParameters followed by propagateKeplerian over
\* deltaTime 0 returns the position and the velocity it started from, for
\* every elliptical state, within a relative tolerance of 1e-6 (here 2 % of
\* their lengths, the rounding of the representation).
C18_RoundTrip ==
    call.name = "roundTrip" =>
        /\ ~IsNull(ret)
        /\ Apart(ret.position, call.position) * 100
               <= 2 * Length(call.position)
        /\ Apart(ret.velocity, call.velocity) * 100
               <= 2 * Length(call.velocity)

\* C19: for e in [0, 0.95) and M in [0, 2 pi) the value E returned by
\* solveKepler satisfies |E - e * sin(E) - M| <= 1e-9 (here 0.005 rad, the
\* rounding of the representation).
C19_KeplerResidual ==
    (/\ call.name = "solveKepler"
     /\ call.M \in 0 .. TwoPi - 1
     /\ call.e * 100 < 95 * EccUnit) =>
        Abs(ret.E - RDiv(call.e * Sin(ret.E), EccUnit) - call.M) <= 5

\* The part of v at right angles to the unit vector n, in 1/TrigUnit.
Tangential(v, n) ==
    Sub(MultiplyScalar(v, TrigUnit, 1),
        MultiplyScalar(n, RDiv(Dot(v, n), TrigUnit), 1))

\* C23: when handlePlanetCollision reports a collision, the returned velocity
\* is 0.5 * (v - 2 (v . n) n) for the outward unit normal n: its component
\* along n is the incoming one negated and halved, its part at right angles
\* to n is the incoming one halved, and its length is half the incoming
\* speed (to the rounding of the representation).
C23_ReflectedAndHalved ==
    (call.name = "handlePlanetCollision" /\ ~IsNull(ret)) =>
        LET n == Normalize(Sub(call.position, PlanetPosition), TrigUnit)
        IN  /\ Abs(2 * Dot(ret.velocity, n) + Dot(call.velocity, n))
                   <= 3 * TrigUnit
            /\ MaxAbs(Sub(MultiplyScalar(Tangential(ret.velocity, n), 2, 1),
                          Tangential(call.velocity, n))) <= 3 * TrigUnit
            /\ Abs(2 * Length(ret.velocity) - Length(call.velocity)) <= 3

\* A collision off the axes with a velocity that has a part along the
\* normal and a part at right angles to it.
C23_Witness ==
    /\ call.name = "handlePlanetCollision"
    /\ ~IsNull(ret)
    /\ call.position = <<100, 200, 200>>
    /\ Abs(Dot(call.velocity,
               Normalize(Sub(call.position, PlanetPosition), TrigUnit)))
           > 10 * TrigUnit
    /\ MaxAbs(Tangential(call.velocity,
                         Normalize(Sub(call.position, PlanetPosition),
                                   TrigUnit))) > 10 * TrigUnit

\* C30: calculateGravitationalForce, calculateOrbitalParameters,
\* propagateKeplerian and handlePlanetCollision never modify their
\* arguments: after the call every object passed in holds the value it was
\* passed with.
C30_ArgumentsUnchanged ==
    call.name = "objects" => ret.after = call.arguments

\* A collision was resolved: the call normalized and scaled distanceVector,
\* a clone of the position, and built its result from clones of
\* planetPosition and velocity.
C30_Witness ==
    /\ call.name = "objects"
    /\ call.operation = "handlePlanetCollision"
    /\ {"distanceVector", "newPosition", "newVelocity"} \subseteq ret.created
    /\ call.arguments[3] # ZeroVector

(***************************************************************************)
(* Properties of SpecCraft.                                                *)
(***************************************************************************)
\* C5: when propagateKeplerian returns null, the step is advanced by
\* numerical integration: in Scene.updatePhysics the tick integrates, in
\* Spacecraft.updateKeplerian the call returns with the position advanced by
\* the velocity gravity has acted on.
C5_FallbackIntegrates ==
    /\ lastTick.propagated = "null" => lastTick.mode \in Integrating
    /\ (/\ call.name = "updateKeplerian"
        /\ ~IsNull(ret)
        /\ ret.outcome = "fallback") =>
           /\ ~threw
           /\ spacecraft.velocity # call.before.velocity
           /\ spacecraft.position =
                  Add(call.before.position,
                      MultiplyScalar(spacecraft.velocity, call.argument,
                                     TimeUnit))

\* The elements of the spacecraft's present position and velocity.
Recomputed ==
    physics_calculateOrbitalParameters(
        AsRealNumber(Sub(spacecraft.position, PlanetPosition)),
        AsRealNumber(spacecraft.velocity), PlanetMass)

\* C8: after setPosition, setVelocity or a thrust impulse has changed the
\* position or velocity of a spacecraft with a central body, the cached
\* elements are absent or are those of the new state.
C8_ElementsFollowState ==
    (/\ call.name \in {"setPosition", "setVelocity", "setThrust"}
     /\ spacecraft.centralBody
     /\ ~threw
     /\ \/ spacecraft.position # call.before.position
        \/ spacecraft.velocity # call.before.velocity) =>
        \/ IsNull(spacecraft.orbitalParameters)
        \/ spacecraft.orbitalParameters = Recomputed

\* C9: after updateKeplerian has propagated, the cached trueAnomaly is a
\* number in [0, 2 pi) and the other cached elements are as before.
C9_TrueAnomalyCarried ==
    (/\ call.name = "updateKeplerian"
     /\ ~IsNull(ret)
     /\ ret.outcome = "propagated") =>
        /\ spacecraft.orbitalParameters.trueAnomaly \in 0 .. (TwoPi - 1)
        /\ [spacecraft.orbitalParameters EXCEPT !.trueAnomaly = 0]
               = [call.before.orbitalParameters EXCEPT !.trueAnomaly = 0]

\* C12: checkPlanetCollision on a spacecraft with a central body returns
\* without an error; inside the radius it leaves the resolver's rebound state,
\* useKeplerianModel false and the elements of the rebound state; otherwise
\* it changes nothing.
C12_CollisionRecovers ==
    (/\ call.name = "checkPlanetCollision"
     /\ call.before.centralBody) =>
        /\ ~threw
        /\ IF Less(Length(Sub(call.before.position, PlanetPosition)),
                   PlanetRadius)
           THEN /\ spacecraft.position =
                       physics_handlePlanetCollision(
                           call.before.position, PlanetPosition, PlanetRadius,
                           call.before.velocity).position
                /\ spacecraft.velocity =
                       physics_handlePlanetCollision(
                           call.before.position, PlanetPosition, PlanetRadius,
                           call.before.velocity).velocity
                /\ ~spacecraft.useKeplerianModel
                /\ spacecraft.orbitalParameters = Recomputed
           ELSE spacecraft = call.before

(***************************************************************************)
(* Properties of SpecWarp.                                                 *)
(***************************************************************************)
\* C13: after any calls of increaseTimeWarp and decreaseTimeWarp the factor
\* is one of 1, 2, 5, 10, 50, 100, 1000, currentIndex is an index of the
\* list with factor = available[currentIndex], and active is true exactly
\* when the factor is > 1.
C13_TimeWarpWellFormed ==
    /\ timeWarp.factor \in {1, 2, 5, 10, 50, 100, 1000}
    /\ timeWarp.currentIndex \in 0 .. 6
    /\ timeWarp.factor =
           <<1, 2, 5, 10, 50, 100, 1000>>[timeWarp.currentIndex + 1]
    /\ timeWarp.active = (timeWarp.factor > 1)

\* increaseTimeWarp called at the last entry of the list.
C13_Witness ==
    /\ call.name = "increaseTimeWarp"
    /\ call.before.factor = 1000
    /\ timeWarp.factor = 1000

\* The factors of the time warp list.
WarpFactors == {1, 2, 5, 10, 50, 100, 1000}

\* b is the member of the list that follows a.
NextFactor(a, b) ==
    /\ a \in WarpFactors
    /\ b \in WarpFactors
    /\ a < b
    /\ \A f \in WarpFactors : ~(a < f /\ f < b)

\* C26: increaseTimeWarp moves to the next larger member of the list and
\* changes nothing at 1000; decreaseTimeWarp moves to the next smaller
\* member and changes nothing at 1; no call skips a member or moves the
\* index by more than one.
C26_OneStepAlongTheList ==
    [][calls' # calls =>
          /\ Abs(timeWarp'.currentIndex - timeWarp.currentIndex) <= 1
          /\ call'.name = "increaseTimeWarp" =>
                IF timeWarp.factor = 1000 THEN timeWarp' = timeWarp
                ELSE /\ NextFactor(timeWarp.factor, timeWarp'.factor)
                     /\ timeWarp'.currentIndex = timeWarp.currentIndex + 1
          /\ call'.name = "decreaseTimeWarp" =>
                IF timeWarp.factor = 1 THEN timeWarp' = timeWarp
                ELSE /\ NextFactor(timeWarp'.factor, timeWarp.factor)
                     /\ timeWarp'.currentIndex = timeWarp.currentIndex - 1]_vars

\* decreaseTimeWarp called at the last entry of the list, after six
\* increases.
C26_Witness ==
    /\ call.name = "decreaseTimeWarp"
    /\ call.before.factor = 1000
    /\ timeWarp.factor = 100
    /\ calls >= 7

(***************************************************************************)
(* Properties of SpecTick.                                                 *)
(***************************************************************************)
\* The substeps of the last tick: min(10, factor) of them, between 2 and 10,
\* of one length, that add up to deltaTime * factor.
SubStepsCoverWarpedTime ==
    /\ lastTick.mode = "substeps"
    /\ lastTick.subSteps = IF lastTick.factor < 10 THEN lastTick.factor ELSE 10
    /\ lastTick.subSteps \in 2 .. 10
    /\ lastTick.gravitySteps = lastTick.subSteps
    /\ lastTick.stepDeltaTime[1] * lastTick.subSteps
           = lastTick.deltaTime * lastTick.factor * lastTick.stepDeltaTime[2]

\* C20 as stated: every tick with thrust engaged and a factor > 1 is split
\* into min(10, ceil(factor)) equal substeps that add up to the warped time.
C20_SubStepsSplitWarpedTime ==
    (lastTick.mode # "none" /\ lastTick.thrusting /\ lastTick.factor > 1) =>
        SubStepsCoverWarpedTime

\* C20, amended: every tick with a planet in the scene, thrust engaged and a
\* factor > 1 that does not resolve a collision is split into
\* min(10, ceil(factor)) equal substeps that add up to the warped time.
C20_SubStepsSplitWarpedTimeUnlessCollision ==
    (/\ planet
     /\ lastTick.mode \notin {"none", "collision"}
     /\ lastTick.thrusting
     /\ lastTick.factor > 1) =>
        SubStepsCoverWarpedTime

\* A tick at factor 50 or more, where the limit of 10 substeps applies.
C20_Witness ==
    /\ lastTick.mode = "substeps"
    /\ lastTick.factor >= 50
    /\ lastTick.subSteps = 10

\* The state at the end of substep k of the last tick: the state the next
\* substep started from, or the state the loop left.
SubStepEnd(k) ==
    IF k < Len(lastTick.trail) THEN lastTick.trail[k + 1]
    ELSE [position |-> lastTick.integrated.position,
          velocity |-> lastTick.integrated.velocity]

\* Substep k moved the position by the velocity the substep ended with.
SubStepUsesNewVelocity(k) ==
    SubStepEnd(k).position =
        Add(lastTick.trail[k].position,
            MultiplyScalar(SubStepEnd(k).velocity, lastTick.stepDeltaTime[1],
                           lastTick.stepDeltaTime[2] * TimeUnit))

\* C21: in every numerical integration step the velocity is updated first and
\* the position is then advanced with the updated velocity, once per step:
\* each substep of a tick with thrust under time warp moves the position by
\* the velocity that substep ended with and Spacecraft.update leaves the
\* position of the last substep; the single step of any other integrating
\* tick moves the position by the velocity the tick ended with.
C21_VelocityThenPositionOnce ==
    /\ lastTick.mode = "substeps" =>
          /\ Len(lastTick.trail) = lastTick.subSteps
          /\ \A k \in 1 .. Len(lastTick.trail) : SubStepUsesNewVelocity(k)
          /\ spacecraft.position = lastTick.integrated.position
    /\ lastTick.mode = "numerical" =>
          spacecraft.position =
              Add(lastTick.before.position,
                  MultiplyScalar(spacecraft.velocity, lastTick.warpedDeltaTime,
                                 TimeUnit))

\* A tick of ten substeps in which gravity changed the velocity and the
\* position moved in every substep.
C21_Witness ==
    /\ lastTick.mode = "substeps"
    /\ Len(lastTick.trail) = 10
    /\ \A k \in 1 .. 10 :
          /\ SubStepEnd(k).velocity # lastTick.trail[k].velocity
          /\ SubStepEnd(k).position # lastTick.trail[k].position


\* What physics.propagateKeplerian returned in the last tick, from the
\* elements and the time step the tick passed to it.
PropagatedState ==
    physics_propagateKeplerian(lastTick.elements, PlanetMass,
                               lastTick.warpedDeltaTime)

\* C22: at the end of a tick that used Keplerian propagation the position is
\* the propagated position, converted to the visualization scale and offset
\* by the planet's position, and the velocity is the converted propagated
\* velocity: no gravity or thrust was added and the position was not
\* advanced again.
C22_KeplerTickSetsPropagatedState ==
    lastTick.mode = "kepler" =>
        /\ ~threw
        /\ lastTick.gravitySteps = 0
        /\ spacecraft.position =
               Add(vectorToVisualizationSpace(PropagatedState.position),
                   PlanetPosition)
        /\ spacecraft.velocity =
               vectorToVisualizationSpace(PropagatedState.velocity)

\* A Keplerian tick that changed both the position and the velocity.
C22_Witness ==
    /\ lastTick.mode = "kepler"
    /\ ~threw
    /\ spacecraft.position # lastTick.before.position
    /\ spacecraft.velocity # lastTick.before.velocity

\* The distance from the planet's centre at which the last tick began.
DistanceBefore == Length(Sub(lastTick.before.position, PlanetPosition))

\* The part of the last tick after the collision step began with the state
\* the tick began with.
ContinuedFromBefore ==
    /\ lastTick.mode = "kepler" =>
           lastTick.elements = Scene_calculateOrbitalParameters(lastTick.before)
    /\ lastTick.mode = "numerical" =>
           /\ lastTick.integrated.position = lastTick.before.position
           /\ lastTick.integrated.velocity =
                  Scene_applyGravity(lastTick.before,
                                     lastTick.warpedDeltaTime, 1).velocity
    /\ lastTick.mode = "substeps" => lastTick.trail[1] = lastTick.before

\* C24: handlePlanetCollision reports a collision exactly when the distance
\* from the planet's centre is strictly less than the radius; at the radius
\* or beyond it returns null, and a tick in which it returned null goes on
\* from the position and velocity the tick began with.
C24_CollisionIffInside ==
    lastTick.collisionChecked =>
        /\ ~IsNull(lastTick.collision) <=> Less(DistanceBefore, PlanetRadius)
        /\ IsNull(lastTick.collision) =>
               /\ lastTick.mode \in {"kepler", "numerical", "substeps"}
               /\ ContinuedFromBefore

\* A tick that began exactly on the surface and found no collision.
C24_Witness ==
    /\ lastTick.collisionChecked
    /\ DistanceBefore = PlanetRadius
    /\ IsNull(lastTick.collision)
    /\ lastTick.mode \in {"kepler", "numerical", "substeps"}

(***************************************************************************)
(* Properties of SpecIdle.                                                 *)
(***************************************************************************)
\* C25: while no central body is attached, a tick checks no collision,
\* integrates no gravity and propagates no orbit at any time warp factor (it
\* moves the craft by its velocity, which only thrust changes), and
\* Spacecraft.calculateOrbitalParameters, updateKeplerian and
\* checkPlanetCollision return without changing the position, the velocity,
\* useKeplerianModel or the cached elements.
C25_IdleDoesNoOrbitalPhysics ==
    [][/\ frame' # frame =>
            /\ lastTick'.mode = "free"
            /\ ~lastTick'.collisionChecked
            /\ IsNull(lastTick'.collision)
            /\ lastTick'.gravitySteps = 0
            /\ lastTick'.subSteps = 0
            /\ lastTick'.propagated = "notCalled"
            /\ IsNull(lastTick'.elements)
            /\ ~keys.space => spacecraft'.velocity = spacecraft.velocity
            /\ spacecraft'.position =
                   Add(spacecraft.position,
                       MultiplyScalar(spacecraft'.velocity,
                                      lastTick'.deltaTime * timeWarp.factor,
                                      TimeUnit))
       /\ calls' # calls =>
            /\ ~threw'
            /\ spacecraft'.position = spacecraft.position
            /\ spacecraft'.velocity = spacecraft.velocity
            /\ spacecraft'.useKeplerianModel = spacecraft.useKeplerianModel
            /\ spacecraft'.orbitalParameters = spacecraft.orbitalParameters]_vars

\* After a tick at a factor above 1 that moved the craft, a direct call of
\* one of the three methods has returned.
C25_Witness ==
    /\ ~planet
    /\ lastTick.mode = "free"
    /\ lastTick.factor > 1
    /\ spacecraft.position # lastTick.before.position
    /\ call.name \in {"calculateOrbitalParameters", "updateKeplerian",
                      "checkPlanetCollision"}
    /\ ~threw

C27_OffCentre ==
    [][(/\ frame' # frame
        /\ lastTick.mode = "collision"
        /\ lastTick.before.position # PlanetPosition) =>
          lastTick'.mode # "collision"]_vars

=============================================================================
